---- MODULE Spec2Model ----
(***************************************************************************)
(* A model of dev_agent: the JSON-RPC client (MCPClient), the lineage      *)
(* tracker (BranchTracker), the tool dispatcher (ToolHandler), the         *)
(* conversation loop (orchestrate / chat_loop), the completion wrapper     *)
(* (LLMBrain), the entry point (main) and the client's decoding of an      *)
(* event stream (_parse_sse_json).                                         *)
(*                                                                         *)
(* The program is single-threaded and blocking.  It is modelled as one     *)
(* control thread whose position is held in three program counters, one    *)
(* per layer (lpc: the loop, hpc: the dispatcher, cpc: the client).  A     *)
(* layer that calls into the next one waits until the callee has returned  *)
(* or raised.  Time is a monotonic clock counted in ticks; a blocking      *)
(* sleep advances it.                                                      *)
(*                                                                         *)
(* JSON values are tagged records [t |-> type, v |-> value]; a dict's v is *)
(* a function from its keys to JSON values, a list's v a sequence.         *)
(***************************************************************************)
EXTENDS Integers, Sequences, FiniteSets, TLC

VARIABLES
    \* ---- MCPClient
    max_retries,     \* self._max_retries
    request_id,      \* self._request_id
    cpc,             \* position inside _call: idle | attempt | returned | raised
    payload,         \* the JSON-RPC envelope of the call in progress
    attempt,         \* the loop variable of _call
    last_exception,  \* the local last_exception of _call
    c_value,         \* the value _call returned
    c_exc,           \* the exception _call raised
    clock,           \* time.monotonic(), in ticks
    \* ---- observation of the client (history variables)
    ncalls,          \* number of _call invocations so far
    posts,           \* the envelopes POSTed by the call in progress, in order
    sleeps,          \* the time.sleep arguments (seconds) of the call in progress
    last_outcome,    \* what the server did on the latest attempt of the call in progress
    seen,            \* the classes of the outcomes of the call in progress
    \* ---- ToolHandler
    default_project_name,  \* self._default_project_name
    max_branches,    \* self._max_branches
    tracker,         \* self._branch_tracker: [start, latest]
    hpc,             \* position inside handle: idle | launch | poll | read | done
    tool_call,       \* the tool call being handled
    poll,            \* the locals of _check_status
    h_result,        \* what handle returned (or the exception that left it)
    \* ---- observation of the dispatcher (history variables)
    nremote,         \* remote calls made by the handle in progress
    poll_seen,       \* the classes of the get_branch responses of the handle in progress
    nhandles,        \* number of handle invocations so far
    \* ---- orchestrate / chat_loop
    lpc,             \* position inside the loop: idle | complete | tools | handling |
                     \* returned | raised
    variant,         \* which loop runs: orchestrate | chat_loop
    max_iterations,  \* the iteration cap of the loop
    iteration,       \* the loop variable
    messages,        \* the conversation
    choice,          \* the assistant message of the iteration in progress
    tc_index,        \* position in choice.tool_calls of the call being handled
    loop_result,     \* what the loop returned (or the exception that left it)
    \* ---- observation of the loop (history variables)
    ncompletions,    \* number of brain.complete invocations so far
    handled,         \* the dispatcher's calls and results so far, in order
    eventful,        \* number of replies so far that were other than empty or final
    twin,            \* chat_loop run beside orchestrate: same history, replies and results
    \* ---- observation of the tracker (history variable)
    recorded,        \* the arguments of the record calls a driver made, in order
    \* ---- LLMBrain
    brain,           \* the wrapper and the locals of complete, with what it has done
    \* ---- main
    process,         \* the process: its arguments, standard output and exit status
    \* ---- MCPClient._parse_sse_json
    codec            \* the text given to the codec and what it came to

clientVars == <<max_retries, request_id, cpc, payload, attempt, last_exception,
                c_value, c_exc, ncalls, posts, sleeps, last_outcome, seen>>

handlerVars == <<default_project_name, max_branches, tracker, hpc, tool_call, poll,
                 h_result, nremote, poll_seen, nhandles>>

loopVars == <<lpc, variant, max_iterations, iteration, messages, choice, tc_index,
              loop_result, ncompletions, handled, eventful, twin>>

vars == <<clientVars, clock, handlerVars, loopVars, recorded, brain, process, codec>>

----------------------------------------------------------------------------
(* Bounds of the model *)

\* largest retry count a client is constructed with
MaxRetries == 3
\* number of _call invocations the client driver makes
MaxCalls == 3
\* log2 of the clock's resolution: a second is 2^ClockBits ticks
ClockBits == 5
\* largest retry count of the client the dispatcher is given
MaxToolRetries == 2
\* number of get_branch fetches of one status operation the model follows
MaxPolls == 9
\* polls of one status operation on which the service answers in every way it can;
\* on later polls it answers in plain JSON or the connection fails
MaxVariedPolls == 3
\* number of record calls the tracker's driver makes
MaxRecords == 4
\* largest max_iterations chat_loop is called with
MaxChatIterations == 2
\* number of replies of a run that are other than empty or final
MaxEventful == 1
\* last iteration of a loop in which the reply is other than empty or a final report
MaxToolIteration == 2
\* number of lines of the event stream the codec is given
MaxSseLines == 4

TicksPerSecond == 2 ^ ClockBits

Min(a, b) == IF a <= b THEN a ELSE b
Max(a, b) == IF a >= b THEN a ELSE b

----------------------------------------------------------------------------
(* JSON values and the Python operations the code applies to them *)

JNull == [t |-> "null"]
JStr(s) == [t |-> "str", v |-> s]
JInt(n) == [t |-> "int", v |-> n]
JBool(b) == [t |-> "bool", v |-> b]
JList(seq) == [t |-> "list", v |-> seq]
JDict(rec) == [t |-> "dict", v |-> rec]
EmptyDict == JDict([k \in {} |-> JNull])

IsDict(j) == j.t = "dict"
IsList(j) == j.t = "list"
IsStr(j) == j.t = "str"

\* key in d, for a dict d
HasKey(j, key) == key \in DOMAIN j.v
\* d[key], for a dict d holding key
Item(j, key) == j.v[key]
\* d.get(key): None when the key is absent
Get(j, key) == IF HasKey(j, key) THEN j.v[key] ELSE JNull

\* bool(x): Python truthiness
Truthy(j) ==
    CASE j.t = "null" -> FALSE
      [] j.t = "bool" -> j.v
      [] j.t = "int" -> j.v # 0
      [] j.t = "str" -> j.v # ""
      [] j.t = "list" -> Len(j.v) > 0
      [] j.t = "dict" -> DOMAIN j.v # {}
      [] OTHER -> TRUE

----------------------------------------------------------------------------
(* Exceptions *)

Exc(type, arg) == [type |-> type, arg |-> arg]
NoExc == Exc("None", JNull)
NoValue == [t |-> "unset"]

----------------------------------------------------------------------------
(* The remote service: what one HTTP POST can come to *)

\* strings of the model that hold the substring "error"
ErrorTexts == {"error", "internal error"}

\* results the service gives for get_branch
StatusResults ==
    { JDict([id |-> JStr("b1"), status |-> JStr("running")]),
      JDict([id |-> JStr("b1"), status |-> JStr("succeed")]),
      JDict([id |-> JStr("b2"), status |-> JStr("succeeded")]),
      JDict([id |-> JStr("b2"), status |-> JStr("failed")]),
      JDict([branch_id |-> JStr("b1"), status |-> JStr(" Succeed ")]),
      JDict([branch |-> JDict([id |-> JStr("b2")]), status |-> JStr("FAILED")]),
      JDict([id |-> JStr("b1")]),
      JDict([id |-> JStr("b1"), status |-> JInt(5)]),
      JDict([status |-> JStr("running")]),
      JDict([status |-> JStr("failed")]) }

\* results the service gives for parallel_explore
LaunchResults ==
    { JDict([branches |-> JList(<< JDict([branch_id |-> JStr("b1")]) >>)]),
      JDict([branches |-> JList(<< JDict([branch |-> JDict([id |-> JStr("b2")])]),
                                   JDict([branch_id |-> JStr("b1")]) >>)]),
      JDict([branches |-> JList(<< >>)]),
      JDict([branches |-> JList(<< JDict([branch_id |-> JStr("")]) >>)]),
      JDict([message |-> JStr("queued")]),
      JDict([isError |-> JBool(TRUE), content |-> JStr("denied")]),
      JDict([branches |-> JList(<< JDict([branch_id |-> JStr("b1")]) >>), error |-> JNull]),
      JDict([error |-> JStr("quota exceeded")]) }

\* results the service gives for branch_read_file
FileResults == { JDict([content |-> JStr("no P0/P1 issues")]) }

ToolResults(name) ==
    CASE name = "get_branch" -> StatusResults
      [] name = "parallel_explore" -> LaunchResults
      [] name = "branch_read_file" -> FileResults
      [] OTHER -> {}

\* the results the service also sends under result.structuredContent, and bare
WrappedResults(name) ==
    CASE name = "get_branch" ->
            { JDict([id |-> JStr("b1"), status |-> JStr("running")]),
              JDict([id |-> JStr("b2"), status |-> JStr("failed")]) }
      [] name = "parallel_explore" ->
            { JDict([branches |-> JList(<< JDict([branch_id |-> JStr("b1")]) >>)]) }
      [] OTHER -> ToolResults(name)

\* bodies that are no answer to the tool: a JSON-RPC error, odd shapes
OddBodies ==
    { JDict([error |-> JDict([code |-> JInt(-32000)])]),
      JDict([error |-> JStr("busy"), result |-> JStr("stale")]),
      JDict([result |-> JStr("pong")]),
      JList(<< JStr("error") >>),
      JList(<< >>),
      JStr("internal error"),
      JInt(5) }

\* the JSON-RPC bodies the service may send for a tools/call of `name`
Bodies(name) ==
    { JDict([result |-> r]) : r \in ToolResults(name) }
    \cup { JDict([result |-> JDict([structuredContent |-> r])]) : r \in WrappedResults(name) }
    \cup WrappedResults(name)
    \cup OddBodies

\* a response text: a JSON document, a one-event SSE stream carrying one, or neither
Texts(name) ==
    { [t |-> "json", v |-> b] : b \in Bodies(name) }
    \cup { [t |-> "sse", v |-> b] :
              b \in { JDict([result |-> JDict([structuredContent |-> r])]) : r \in WrappedResults(name) }
                    \cup { JDict([error |-> JDict([code |-> JInt(-32000)])]), JInt(5) } }
    \cup { [t |-> "raw"] }

\* session.post raises, or a response arrives
ServerOutcomes(name) ==
    { [k |-> "post_raises", exc |-> e] : e \in {"ConnectionError", "Timeout"} }
    \cup { [k |-> "response", status |-> 500, ct |-> "text/html", text |-> [t |-> "raw"]] }
    \cup { [k |-> "response", status |-> 200, ct |-> "application/json", text |-> x] :
              x \in { y \in Texts(name) : y.t # "sse" } }
    \cup { [k |-> "response", status |-> 200, ct |-> "text/event-stream", text |-> x] :
              x \in { y \in Texts(name) : y.t # "json" } }
NoOutcome == [k |-> "none"]

\* the service a run of the conversation loop talks to: it answers in plain JSON
\* or the connection fails
LoopOutcomes(name) ==
    { [k |-> "post_raises", exc |-> "ConnectionError"] }
    \cup { [k |-> "response", status |-> 200, ct |-> "application/json",
            text |-> [t |-> "json", v |-> JDict([result |-> r])]] : r \in WrappedResults(name) }

Service(name) ==
    IF lpc = "idle" /\ ~(hpc = "poll" /\ poll.attempt > MaxVariedPolls)
    THEN ServerOutcomes(name)
    ELSE LoopOutcomes(name)

\* the class of an outcome: no response, a response that does not decode, a decoded body
OutcomeClass(o) ==
    IF o.k = "post_raises" \/ o.status >= 400 THEN "transport"
    ELSE IF o.text.t = "raw" \/ (o.ct = "text/event-stream" /\ o.text.v.t \notin {"dict", "list"})
         THEN "undecodable"
         ELSE "decoded"

----------------------------------------------------------------------------
(* MCPClient *)

Raise(exc) == [k |-> "raise", exc |-> exc]
Return(value) == [k |-> "return", value |-> value]

\* Response.json(): the text as JSON, or ValueError
ResponseJsonLenient(text) ==
    IF text.t = "json" THEN Return(text.v) ELSE Return(JNull)

ResponseJson(text) ==
    IF text.t = "json" THEN Return(text.v) ELSE Raise(Exc("ValueError", JNull))

\* _parse_sse_json on a one-event stream: the data chunk is tried only when it
\* starts with { or [, and so is the raw text in the fallback scan
ParseSseJson(text) ==
    IF text.t \in {"sse", "json"} /\ text.v.t \in {"dict", "list"}
    THEN Return(text.v)
    ELSE Raise(Exc("ValueError", JNull))

\* `key in body`: membership for a dict, a list and a str; TypeError otherwise
PyIn(key, body) ==
    CASE body.t = "dict" -> IF HasKey(body, key) THEN "yes" ELSE "no"
      [] body.t = "list" -> IF \E i \in 1..Len(body.v) : body.v[i] = JStr(key) THEN "yes" ELSE "no"
      [] body.t = "str" -> IF key = "error" /\ body.v \in ErrorTexts THEN "yes" ELSE "no"
      [] OTHER -> "TypeError"

\* body["error"]: the member of a dict; TypeError for a list or a str
ErrorOf(body) ==
    IF IsDict(body) THEN Exc("MCPError", Item(body, "error")) ELSE Exc("TypeError", JNull)

UnwrapKeepingWrapper(body) ==
    LET has == PyIn("error", body) IN
    IF has = "TypeError" THEN Raise(Exc("TypeError", JNull))
    ELSE IF has = "yes" THEN Raise(ErrorOf(body))
    ELSE IF IsDict(body) /\ HasKey(body, "result") THEN Return(Item(body, "result"))
    ELSE Return(body)

UnwrapResultFirst(body) ==
    IF IsDict(body) /\ HasKey(body, "result") THEN Return(Item(body, "result"))
    ELSE IF PyIn("error", body) = "TypeError" THEN Raise(Exc("TypeError", JNull))
    ELSE IF PyIn("error", body) = "yes" THEN Raise(ErrorOf(body))
    ELSE Return(body)

\* lines 169-177: what a decoded body comes to
Unwrap(body) ==
    LET has == PyIn("error", body) IN
    IF has = "TypeError" THEN Raise(Exc("TypeError", JNull))
    ELSE IF has = "yes" THEN Raise(ErrorOf(body))
    ELSE IF IsDict(body) /\ HasKey(body, "result")
         THEN LET result_obj == Item(body, "result") IN
              IF IsDict(result_obj) /\ HasKey(result_obj, "structuredContent")
              THEN Return(Item(result_obj, "structuredContent"))
              ELSE Return(result_obj)
         ELSE Return(body)

\* lines 138-188: one pass through the try block
AttemptResult(o) ==
    IF o.k = "post_raises" THEN Raise(Exc(o.exc, JNull))
    ELSE IF o.status >= 400 THEN Raise(Exc("HTTPError", JInt(o.status)))
    ELSE LET decoded == IF o.ct = "text/event-stream"
                        THEN ParseSseJson(o.text)
                        ELSE ResponseJson(o.text) IN
         IF decoded.k = "raise" THEN decoded ELSE Unwrap(decoded.value)

WaitTimeDoubled(att) == 2 * att

\* line 192
WaitTime(att) == 2 ^ att

CaughtUnlessMCPError(exc) == exc.type # "MCPError"

\* line 189: `except Exception` takes every exception of the try block
Caught(exc) == TRUE


NextRequestIdStuck(id) == IF id = 0 THEN 1 ELSE id

NextRequestIdSkipping(rid) == rid + 2

\* line 128
NextRequestId(rid) == rid + 1

\* lines 128-132: entering _call
BeginCall(method, params) ==
    /\ request_id' = NextRequestId(request_id)
    /\ payload' = [jsonrpc |-> "2.0", id |-> NextRequestId(request_id),
                   method |-> method, params |-> params]
    /\ attempt' = 0
    /\ last_exception' = NoExc
    /\ cpc' = "attempt"
    /\ c_value' = NoValue
    /\ c_exc' = NoExc
    /\ ncalls' = ncalls + 1
    /\ posts' = << >>
    /\ sleeps' = << >>
    /\ last_outcome' = NoOutcome
    /\ seen' = {}
    /\ UNCHANGED max_retries

\* line 208
CallTool(name, arguments) ==
    BeginCall("tools/call", [name |-> name, arguments |-> arguments])

\* lines 134-204: one iteration of the retry loop
CallAttempt ==
    /\ cpc = "attempt"
    /\ attempt < max_retries
    /\ \E o \in Service(payload.params.name) :
         LET r == AttemptResult(o) IN
         /\ posts' = Append(posts, payload)
         /\ last_outcome' = o
         /\ seen' = seen \cup {OutcomeClass(o)}
         /\ IF r.k = "return"
            THEN /\ cpc' = "returned"
                 /\ c_value' = r.value
                 /\ UNCHANGED <<attempt, last_exception, c_exc, sleeps, clock>>
            ELSE IF Caught(r.exc)
            THEN /\ last_exception' = r.exc
                 /\ attempt' = attempt + 1
                 /\ IF attempt < max_retries - 1
                    THEN /\ sleeps' = Append(sleeps, WaitTime(attempt))
                         /\ clock' = clock + WaitTime(attempt) * TicksPerSecond
                    ELSE UNCHANGED <<sleeps, clock>>
                 /\ UNCHANGED <<cpc, c_value, c_exc>>
            ELSE /\ cpc' = "raised"
                 /\ c_exc' = r.exc
                 /\ UNCHANGED <<attempt, last_exception, c_value, sleeps, clock>>
    /\ UNCHANGED <<max_retries, request_id, payload, ncalls>>
    /\ UNCHANGED <<handlerVars, loopVars, recorded, brain, process, codec>>

\* line 205: the loop is over
CallRaise ==
    /\ cpc = "attempt"
    /\ attempt >= max_retries
    /\ cpc' = "raised"
    /\ c_exc' = IF last_exception # NoExc THEN last_exception
                ELSE Exc("MCPError", JStr("Unknown MCP error"))
    /\ UNCHANGED <<max_retries, request_id, payload, attempt, last_exception, c_value,
                   ncalls, posts, sleeps, last_outcome, seen, clock>>
    /\ UNCHANGED <<handlerVars, loopVars, recorded, brain, process, codec>>

----------------------------------------------------------------------------
(* MCPClient._parse_sse_json: the text of an event stream and its decoding *)

\* A text is a sequence of lexical items: the line break characters LF and CR,
\* the blank SP, the punctuation of JSON and of SSE fields, the string literal
\* "a", the numbers 1 and 2, and the bare words data, event, DONE and x.
JsonWhitespace == {"SP", "LF", "CR"}
JsonStrings == {"a"}
JsonNumbers == {"1", "2"}
NumberOf(c) == IF c = "1" THEN 1 ELSE 2

\* the codec before it is given a text
NoCodec == [pc |-> "none", lines |-> << >>, crlf |-> FALSE, text |-> << >>,
            result |-> [k |-> "none"]]

RECURSIVE SkipWhitespace(_, _)
\* json.decoder WHITESPACE.match(s, i).end()
SkipWhitespace(s, i) ==
    IF i <= Len(s) /\ s[i] \in JsonWhitespace THEN SkipWhitespace(s, i + 1) ELSE i

NoScan == [ok |-> FALSE, value |-> JNull, end |-> 0]
Scanned(value, end) == [ok |-> TRUE, value |-> value, end |-> end]

RECURSIVE ScanOnce(_, _)
RECURSIVE ScanMembers(_, _, _)
RECURSIVE ScanElements(_, _, _)

\* json.scanner scan_once: the value that starts at position i, and where it ends
ScanOnce(s, i) ==
    IF i > Len(s) THEN NoScan
    ELSE IF s[i] = "{"
         THEN LET j == SkipWhitespace(s, i + 1) IN
              IF j <= Len(s) /\ s[j] = "}" THEN Scanned(EmptyDict, j + 1)
              ELSE ScanMembers(s, j, EmptyDict.v)
    ELSE IF s[i] = "["
         THEN LET j == SkipWhitespace(s, i + 1) IN
              IF j <= Len(s) /\ s[j] = "]" THEN Scanned(JList(<< >>), j + 1)
              ELSE ScanElements(s, j, << >>)
    ELSE IF s[i] \in JsonStrings THEN Scanned(JStr(s[i]), i + 1)
    ELSE IF s[i] \in JsonNumbers THEN Scanned(JInt(NumberOf(s[i])), i + 1)
    ELSE NoScan

\* json.decoder JSONObject: the members from the key at position i on
ScanMembers(s, i, members) ==
    IF i > Len(s) \/ s[i] \notin JsonStrings THEN NoScan
    ELSE LET colon == SkipWhitespace(s, i + 1) IN
         IF colon > Len(s) \/ s[colon] # ":" THEN NoScan
         ELSE LET member == ScanOnce(s, SkipWhitespace(s, colon + 1)) IN
              IF ~member.ok THEN NoScan
              ELSE LET pairs == (s[i] :> member.value) @@ members
                       next == SkipWhitespace(s, member.end) IN
                   IF next > Len(s) THEN NoScan
                   ELSE IF s[next] = "}" THEN Scanned(JDict(pairs), next + 1)
                   ELSE IF s[next] = ","
                        THEN ScanMembers(s, SkipWhitespace(s, next + 1), pairs)
                   ELSE NoScan

\* json.decoder JSONArray: the elements from the value at position i on
ScanElements(s, i, elements) ==
    LET element == ScanOnce(s, i) IN
    IF ~element.ok THEN NoScan
    ELSE LET values == Append(elements, element.value)
             next == SkipWhitespace(s, element.end) IN
         IF next > Len(s) THEN NoScan
         ELSE IF s[next] = "]" THEN Scanned(JList(values), next + 1)
         ELSE IF s[next] = ","
              THEN ScanElements(s, SkipWhitespace(s, next + 1), values)
         ELSE NoScan

\* json.JSONDecoder().raw_decode(s[idx:]): a value starts at idx, whatever follows
RawDecode(s, idx) ==
    LET scan == ScanOnce(s, idx) IN
    IF scan.ok THEN Return(scan.value) ELSE Raise(Exc("JSONDecodeError", JNull))

\* json.loads(s): the whole of s is one value, blanks around it allowed
Loads(s) ==
    LET scan == ScanOnce(s, SkipWhitespace(s, 1)) IN
    IF scan.ok /\ SkipWhitespace(s, scan.end) > Len(s) THEN Return(scan.value)
    ELSE Raise(Exc("JSONDecodeError", JNull))

RECURSIVE ReplaceCrLf(_)
\* line 44: text.replace("\r\n", "\n")
ReplaceCrLf(text) ==
    IF text = << >> THEN << >>
    ELSE IF Len(text) >= 2 /\ text[1] = "CR" /\ text[2] = "LF"
         THEN <<"LF">> \o ReplaceCrLf(SubSeq(text, 3, Len(text)))
    ELSE <<text[1]>> \o ReplaceCrLf(Tail(text))

RECURSIVE SplitLines(_)
\* line 50: normalized.split("\n")
SplitLines(text) ==
    IF \A i \in 1..Len(text) : text[i] # "LF" THEN <<text>>
    ELSE LET at == CHOOSE i \in 1..Len(text) :
                      text[i] = "LF" /\ \A j \in 1..(i - 1) : text[j] # "LF" IN
         <<SubSeq(text, 1, at - 1)>> \o SplitLines(SubSeq(text, at + 1, Len(text)))

RECURSIVE RstripOf(_, _)
\* str.rstrip(chars)
RstripOf(s, chars) ==
    IF s # << >> /\ s[Len(s)] \in chars THEN RstripOf(SubSeq(s, 1, Len(s) - 1), chars) ELSE s

RECURSIVE LstripOf(_, _)
\* str.lstrip(chars)
LstripOf(s, chars) ==
    IF s # << >> /\ s[1] \in chars THEN LstripOf(Tail(s), chars) ELSE s

\* str.strip()
StripBlanks(s) == LstripOf(RstripOf(s, JsonWhitespace), JsonWhitespace)

RECURSIVE JoinLines(_)
\* "\n".join(data_lines)
JoinLines(chunks) ==
    IF chunks = << >> THEN << >>
    ELSE IF Len(chunks) = 1 THEN chunks[1]
    ELSE chunks[1] \o <<"LF">> \o JoinLines(Tail(chunks))

\* an event under construction: the fields set so far, and its data chunks
NoEvent == [fields |-> {}, data |-> << >>]

\* lines 51-72: one line of the stream, applied to the events completed so far
\* and to the current event
ReadLine(acc, raw_line) ==
    LET line == RstripOf(raw_line, {"CR"}) IN
    IF line = << >>
    THEN IF acc.current.fields # {}
         THEN [events |-> Append(acc.events, acc.current), current |-> NoEvent]
         ELSE acc
    ELSE IF line[1] = ":" THEN acc
    ELSE IF \A i \in 1..Len(line) : line[i] # ":" THEN acc
    ELSE LET at == CHOOSE i \in 1..Len(line) :
                      line[i] = ":" /\ \A j \in 1..(i - 1) : line[j] # ":"
             field == StripBlanks(SubSeq(line, 1, at - 1))
             value == LstripOf(SubSeq(line, at + 1, Len(line)), {"SP"}) IN
         IF field = <<"event">>
         THEN [acc EXCEPT !.current.fields = @ \cup {"event"}]
         ELSE IF field = <<"data">>
         THEN [acc EXCEPT !.current.fields = @ \cup {"data"},
                          !.current.data = Append(@, value)]
         ELSE acc

RECURSIVE ReadLines(_, _)
ReadLines(acc, lines) ==
    IF lines = << >> THEN acc ELSE ReadLines(ReadLine(acc, Head(lines)), Tail(lines))

\* lines 46-75: the events of the normalized text
ParseEvents(normalized) ==
    LET acc == ReadLines([events |-> << >>, current |-> NoEvent], SplitLines(normalized)) IN
    IF acc.current.fields # {} THEN Append(acc.events, acc.current) ELSE acc.events

RECURSIVE FirstChunk(_)
\* lines 81-89: the first data chunk that decodes on its own, if any
FirstChunk(data_lines) ==
    IF data_lines = << >> THEN Raise(Exc("None", JNull))
    ELSE LET candidate == StripBlanks(Head(data_lines)) IN
         IF candidate = << >> \/ candidate \in {<<"[", "DONE", "]">>, <<"DONE">>}
         THEN FirstChunk(Tail(data_lines))
         ELSE IF candidate[1] \in {"{", "["} /\ Loads(candidate).k = "return"
         THEN Loads(candidate)
         ELSE FirstChunk(Tail(data_lines))

\* lines 91-96: the accumulated data of an event, decoded
JoinedData(data_lines) ==
    LET joined == StripBlanks(JoinLines(data_lines)) IN
    IF joined # << >> /\ joined[1] \in {"{", "["} THEN Loads(joined)
    ELSE Raise(Exc("None", JNull))

FromEventJoinedOnly(event) == JoinedData(event.data)

\* lines 78-96: what one event yields
FromEvent(event) ==
    IF FirstChunk(event.data).k = "return" THEN FirstChunk(event.data)
    ELSE JoinedData(event.data)

RECURSIVE FromEvents(_)
\* lines 77-96: the events in order
FromEvents(events) ==
    IF events = << >> THEN Raise(Exc("None", JNull))
    ELSE IF FromEvent(Head(events)).k = "return" THEN FromEvent(Head(events))
    ELSE FromEvents(Tail(events))

RECURSIVE ScanFrom(_, _, _)
\* lines 101-110: the first position at or after search_index where start_char
\* stands and a value can be decoded
ScanFrom(normalized, start_char, search_index) ==
    IF \A i \in search_index..Len(normalized) : normalized[i] # start_char
    THEN Raise(Exc("None", JNull))
    ELSE LET idx == CHOOSE i \in search_index..Len(normalized) :
                       /\ normalized[i] = start_char
                       /\ \A j \in search_index..(i - 1) : normalized[j] # start_char IN
         IF RawDecode(normalized, idx).k = "return" THEN RawDecode(normalized, idx)
         ELSE ScanFrom(normalized, start_char, idx + 1)

\* lines 98-110: the fallback scans for an object first, then for an array
Fallback(normalized) ==
    IF ScanFrom(normalized, "{", 1).k = "return" THEN ScanFrom(normalized, "{", 1)
    ELSE ScanFrom(normalized, "[", 1)

\* lines 42-113: _parse_sse_json on the text itself
ParseSseJsonText(text) ==
    LET normalized == ReplaceCrLf(text)
        events == ParseEvents(normalized) IN
    IF FromEvents(events).k = "return" THEN FromEvents(events)
    ELSE IF Fallback(normalized).k = "return" THEN Fallback(normalized)
    ELSE Raise(Exc("ValueError", JStr("No JSON data event in SSE response")))

\* the codec is applied to the text it was given
CodecParse ==
    /\ codec.pc = "given"
    /\ codec' = [codec EXCEPT !.pc = "done", !.result = ParseSseJsonText(codec.text)]
    /\ UNCHANGED <<clientVars, clock, handlerVars, loopVars, recorded, brain, process>>

----------------------------------------------------------------------------
(* BranchTracker *)

\* lines 245-247
NewTracker(start_branch_id) ==
    [start |-> start_branch_id, latest |-> start_branch_id]

RecordUnchecked(tr, branch_id) ==
    [start |-> IF ~Truthy(tr.start) THEN branch_id ELSE tr.start, latest |-> branch_id]

RecordLatestOnly(tr, branch_id) ==
    IF ~Truthy(branch_id) \/ ~IsStr(branch_id) THEN tr
    ELSE [tr EXCEPT !.latest = branch_id]

RecordKeepingLatest(tr, branch_id) ==
    IF ~Truthy(branch_id) \/ ~IsStr(branch_id) THEN tr
    ELSE IF ~Truthy(tr.start) THEN [start |-> branch_id, latest |-> branch_id]
    ELSE tr

RecordOverwritingStart(tr, branch_id) ==
    IF ~Truthy(branch_id) \/ ~IsStr(branch_id) THEN tr
    ELSE [start |-> branch_id, latest |-> branch_id]

\* lines 249-254
Record(tr, branch_id) ==
    IF ~Truthy(branch_id) \/ ~IsStr(branch_id)
    THEN tr
    ELSE [start |-> IF ~Truthy(tr.start) THEN branch_id ELSE tr.start,
          latest |-> branch_id]

----------------------------------------------------------------------------
(* ToolHandler: values *)

\* default of max_branches, line 279
DEFAULT_MAX_BRANCHES == 4
\* defaults of the status operation, lines 372-374
DEFAULT_TIMEOUT_SECONDS == 1800
DEFAULT_POLL_INTERVAL == 3
DEFAULT_MAX_POLL_INTERVAL == 30

\* a float of x / TicksPerSecond seconds
JFloat(x) == [t |-> "float", v |-> x]

\* isinstance(x, (int, float)); bool is a subclass of int
IsNumber(j) == j.t \in {"int", "float", "bool"}
\* isinstance(x, int)
IsInt(j) == j.t \in {"int", "bool"}
\* the value of an int
IntValue(j) == IF j.t = "bool" THEN (IF j.v THEN 1 ELSE 0) ELSE j.v
\* float(x), in ticks
NumTicks(j) == IF j.t = "float" THEN j.v ELSE IntValue(j) * TicksPerSecond

\* an f-string with its arguments
Fmt(f, args) == [t |-> "fmt", fmt |-> f, args |-> args]
\* a value that is text
IsText(j) == j.t \in {"str", "fmt", "repr"}
\* str(x): a str is itself, anything else is printed
PyStr(j) == IF IsText(j) THEN j ELSE [t |-> "repr", v |-> j]
\* str(exc): the argument of the repository's exceptions, the library's text otherwise
ExcStr(exc) ==
    IF exc.type \in {"ToolExecutionError", "MCPError"} THEN PyStr(exc.arg) ELSE JStr(exc.type)

\* raise ToolExecutionError(message)
ToolError(message) == Raise(Exc("ToolExecutionError", message))
\* x.get(...) on a value that is no dict
AttributeError == Raise(Exc("AttributeError", JNull))

\* line 318
Success(data) == JDict([status |-> JStr("success"), data |-> data])
\* lines 455-457
Error(message) == JDict([status |-> JStr("error"), error |-> message])
\* an exception that leaves handle
Propagated(exc) == [t |-> "raised", exc |-> exc]

CaughtNothingElse(exc) == FALSE

\* line 314: `except Exception` takes whatever is no ToolExecutionError
CaughtByHandle(exc) == TRUE

HandleOutcomeUnprefixed(r) ==
    IF r.k = "return" THEN Success(r.value) ELSE Error(ExcStr(r.exc))

\* lines 302-318: the result of an operation as handle returns it
HandleOutcome(r) ==
    IF r.k = "return" THEN Success(r.value)
    ELSE IF r.exc.type = "ToolExecutionError" THEN Error(ExcStr(r.exc))
    ELSE IF CaughtByHandle(r.exc) THEN Error(Fmt("Execution error: {}", << ExcStr(r.exc) >>))
    ELSE Propagated(r.exc)

ParseArgumentsLenient(text) ==
    IF text.t = "json" THEN Return(text.v) ELSE Return(EmptyDict)

\* line 297: json.loads(arguments_payload or "{}")
ParseArguments(text) ==
    CASE text.t \in {"none", "empty"} -> Return(EmptyDict)
      [] text.t = "json" -> Return(text.v)
      [] OTHER -> Raise(Exc("JSONDecodeError", JNull))

NotAStringLenient(j) == ~IsStr(j)

\* `not x or not isinstance(x, str)`
NotAString(j) == ~Truthy(j) \/ ~IsStr(j)

\* lines 326-343: the arguments of the launch operation
ValidateExecute(arguments) ==
    IF ~IsDict(arguments) THEN AttributeError
    ELSE LET agent == Get(arguments, "agent")
             prompt == Get(arguments, "prompt")
             project_name == IF Truthy(Get(arguments, "project_name"))
                             THEN Get(arguments, "project_name")
                             ELSE default_project_name
             parent_branch_id == Get(arguments, "parent_branch_id")
             num_branches == IF HasKey(arguments, "num_branches")
                             THEN Item(arguments, "num_branches") ELSE JInt(1) IN
         IF NotAString(agent) THEN ToolError(JStr("agent string argument is required."))
         ELSE IF NotAString(prompt) THEN ToolError(JStr("prompt string argument is required."))
         ELSE IF NotAString(parent_branch_id)
              THEN ToolError(JStr("parent_branch_id string argument is required."))
         ELSE IF NotAString(project_name)
              THEN ToolError(JStr("project_name string argument is required or set via config."))
         ELSE IF ~IsInt(num_branches) \/ IntValue(num_branches) < 1
                 \/ IntValue(num_branches) > max_branches
              THEN ToolError(Fmt("num_branches must be an integer between 1 and {}.",
                                 << JInt(max_branches) >>))
         ELSE Return(JDict([project_name |-> project_name,
                            parent_branch_id |-> parent_branch_id,
                            shared_prompt_sequence |-> JList(<< prompt >>),
                            num_branches |-> num_branches,
                            agent |-> agent]))

\* lines 439-453
FirstId(d) ==
    IF IsStr(Get(d, "branch_id")) /\ Truthy(Get(d, "branch_id")) THEN Get(d, "branch_id")
    ELSE IF IsStr(Get(d, "id")) /\ Truthy(Get(d, "id")) THEN Get(d, "id")
    ELSE JNull

ExtractBranchIdFlat(response) ==
    IF ~IsDict(response) THEN JNull ELSE FirstId(response)

ExtractBranchId(response) ==
    IF ~IsDict(response) THEN JNull
    ELSE IF FirstId(response) # JNull THEN FirstId(response)
    ELSE IF IsDict(Get(response, "branch")) THEN FirstId(Get(response, "branch"))
    ELSE JNull

LaunchOutcomeEmptyId(response) ==
    IF IsDict(response) /\ (HasKey(response, "error") \/ Truthy(Get(response, "isError")))
    THEN [out |-> ToolError(PyStr(IF Truthy(Get(response, "error"))
                                  THEN Get(response, "error") ELSE response)),
          id |-> JNull]
    ELSE LET branches == IF IsDict(response) THEN Get(response, "branches") ELSE JNull
             branch_id == ExtractBranchId(IF IsList(branches) /\ Truthy(branches)
                                          THEN branches.v[1] ELSE EmptyDict) IN
         [out |-> Return(JDict([parallel_explore |-> response,
                                branch_id |-> IF Truthy(branch_id) THEN branch_id
                                              ELSE JStr("")])),
          id |-> branch_id]

LaunchOutcomeLenient(response) ==
    IF IsDict(response) /\ HasKey(response, "error")
    THEN [out |-> ToolError(PyStr(Get(response, "error"))), id |-> JNull]
    ELSE LET branches == IF IsDict(response) THEN Get(response, "branches") ELSE JNull
             branch_id == ExtractBranchId(IF IsList(branches) /\ Truthy(branches)
                                          THEN branches.v[1] ELSE EmptyDict) IN
         IF ~Truthy(branch_id)
         THEN [out |-> ToolError(JStr("Missing branch id in parallel_explore response.")),
               id |-> JNull]
         ELSE [out |-> Return(JDict([parallel_explore |-> response, branch_id |-> branch_id])),
               id |-> branch_id]

\* lines 355-366: what the launch operation makes of the remote response;
\* `id` is what it records in the tracker
LaunchOutcome(response) ==
    IF IsDict(response) /\ (HasKey(response, "error") \/ Truthy(Get(response, "isError")))
    THEN [out |-> ToolError(PyStr(IF Truthy(Get(response, "error"))
                                  THEN Get(response, "error") ELSE response)),
          id |-> JNull]
    ELSE LET branches == IF IsDict(response) THEN Get(response, "branches") ELSE JNull
             primary_branch == IF IsList(branches) /\ Truthy(branches)
                               THEN branches.v[1] ELSE JNull
             branch_id == ExtractBranchId(IF Truthy(primary_branch)
                                          THEN primary_branch ELSE EmptyDict) IN
         IF ~Truthy(branch_id)
         THEN [out |-> ToolError(JStr("Missing branch id in parallel_explore response.")),
               id |-> JNull]
         ELSE [out |-> Return(JDict([parallel_explore |-> response, branch_id |-> branch_id])),
               id |-> branch_id]

NotNegative(ticks) == ticks >= 0

\* lines 376 and 378: `x <= 0` rejects
Positive(ticks) == ticks > 0

\* lines 369-381: the arguments of the status operation, times in ticks
ValidateStatus(arguments) ==
    IF ~IsDict(arguments) THEN AttributeError
    ELSE LET branch_id == Get(arguments, "branch_id")
             timeout_seconds == IF HasKey(arguments, "timeout_seconds")
                                THEN Item(arguments, "timeout_seconds")
                                ELSE JInt(DEFAULT_TIMEOUT_SECONDS)
             poll_interval == IF HasKey(arguments, "poll_interval_seconds")
                              THEN Item(arguments, "poll_interval_seconds")
                              ELSE JFloat(DEFAULT_POLL_INTERVAL * TicksPerSecond)
             max_interval == IF HasKey(arguments, "max_poll_interval_seconds")
                             THEN Item(arguments, "max_poll_interval_seconds")
                             ELSE JFloat(DEFAULT_MAX_POLL_INTERVAL * TicksPerSecond) IN
         IF NotAString(branch_id)
         THEN ToolError(JStr("branch_id string argument is required."))
         ELSE IF ~IsNumber(timeout_seconds) \/ ~Positive(NumTicks(timeout_seconds))
              THEN ToolError(JStr("timeout_seconds must be a positive number if provided."))
         ELSE IF ~IsNumber(poll_interval) \/ ~Positive(NumTicks(poll_interval))
              THEN ToolError(JStr("poll_interval_seconds must be a positive number if provided."))
         ELSE IF ~IsNumber(max_interval) \/ NumTicks(max_interval) < NumTicks(poll_interval)
              THEN ToolError(JStr("max_poll_interval_seconds must be a number >= poll_interval_seconds."))
         ELSE Return([branch_id |-> branch_id,
                      timeout |-> NumTicks(timeout_seconds),
                      poll_interval |-> NumTicks(poll_interval),
                      max_interval |-> NumTicks(max_interval)])

\* lines 424-429: the arguments of the read-artifact operation
ValidateRead(arguments) ==
    IF ~IsDict(arguments) THEN AttributeError
    ELSE IF NotAString(Get(arguments, "branch_id"))
         THEN ToolError(JStr("branch_id string argument is required."))
    ELSE IF NotAString(Get(arguments, "path"))
         THEN ToolError(JStr("path string argument is required."))
    ELSE Return([branch_id |-> Get(arguments, "branch_id"), path |-> Get(arguments, "path")])

StripNothing(s) == s

\* str.strip() on the strings of the model
Strip(s) ==
    CASE s = " Succeed " -> "Succeed"
      [] s = "  " -> ""
      [] OTHER -> s

\* str.lower() on the strings of the model
Lower(s) ==
    CASE s = "Succeed" -> "succeed"
      [] s = "FAILED" -> "failed"
      [] OTHER -> s

StatusLowerMissingIsDone(value) ==
    IF ~Truthy(value) THEN Return("succeed")
    ELSE IF IsStr(value) THEN Return(Lower(Strip(value.v)))
    ELSE AttributeError

\* lines 383-384: (value or "").strip().lower()
StatusLower(value) ==
    IF ~Truthy(value) THEN Return("")
    ELSE IF IsStr(value) THEN Return(Lower(Strip(value.v)))
    ELSE AttributeError

TerminalOnlySucceed == {"succeed"}

\* line 403
TerminalStatuses == {"succeed", "failed"}

\* line 395: response.get("status") normalized
StatusOf(response) ==
    IF ~IsDict(response) THEN AttributeError ELSE StatusLower(Get(response, "status"))

RecordFromStatusLenient(tr, response) ==
    Return(Record(tr, ExtractBranchId(response)))

\* lines 433-437: the tracker after _record_branch_from_status, or its exception
RecordFromStatus(tr, response) ==
    IF ~Truthy(ExtractBranchId(response))
    THEN ToolError(JStr("Branch status response missing branch identifier."))
    ELSE Return(Record(tr, ExtractBranchId(response)))

\* lines 408-411: `status or 'unknown'` in the timeout message
TimedOut(branch_id, status) ==
    ToolError(Fmt("Timed out waiting for branch {} to finish. Last status={}.",
                  << branch_id, JStr(IF status = "" THEN "unknown" ELSE status) >>))

GrowIntervalDoubling(sleep_interval, max_interval) ==
    Min(sleep_interval * 2, max_interval)

\* line 421
GrowInterval(sleep_interval, max_interval) ==
    Min((sleep_interval * 3) \div 2, max_interval)

DeadlineNever(now, deadline) == FALSE

\* line 407
DeadlinePassed(now, deadline) == now >= deadline

PollStepTerminalUnrecorded(response, tr, now, deadline, branch_id) ==
    LET st == StatusOf(response) IN
    IF st.k = "raise" THEN [next |-> "raise", out |-> st, tr |-> tr]
    ELSE LET status == st.value
             rec == RecordFromStatus(tr, response) IN
         IF status \in TerminalStatuses
         THEN [next |-> "return", out |-> Return(response),
               tr |-> IF rec.k = "raise" THEN tr ELSE rec.value]
         ELSE IF DeadlinePassed(now, deadline)
         THEN [next |-> "raise", out |-> TimedOut(branch_id, status), tr |-> tr]
         ELSE IF rec.k = "raise"
              THEN [next |-> "raise", out |-> rec, tr |-> tr]
              ELSE [next |-> "sleep", out |-> Return(JNull), tr |-> rec.value]

PollStepDeadlineFirst(response, tr, now, deadline, branch_id) ==
    LET st == StatusOf(response) IN
    IF st.k = "raise" THEN [next |-> "raise", out |-> st, tr |-> tr]
    ELSE LET status == st.value
             rec == RecordFromStatus(tr, response) IN
         IF DeadlinePassed(now, deadline)
         THEN [next |-> "raise", out |-> TimedOut(branch_id, status), tr |-> tr]
         ELSE IF rec.k = "raise"
         THEN [next |-> "raise", out |-> rec, tr |-> tr]
         ELSE IF status \in TerminalStatuses
         THEN [next |-> "return", out |-> Return(response), tr |-> rec.value]
         ELSE [next |-> "sleep", out |-> Return(JNull), tr |-> rec.value]

PollStepRecordingFirst(response, tr, now, deadline, branch_id) ==
    LET st == StatusOf(response) IN
    IF st.k = "raise" THEN [next |-> "raise", out |-> st, tr |-> tr]
    ELSE LET status == st.value
             rec == RecordFromStatus(tr, response) IN
         IF rec.k = "raise" THEN [next |-> "raise", out |-> rec, tr |-> tr]
         ELSE IF status \in TerminalStatuses
         THEN [next |-> "return", out |-> Return(response), tr |-> rec.value]
         ELSE IF DeadlinePassed(now, deadline)
         THEN [next |-> "raise", out |-> TimedOut(branch_id, status), tr |-> rec.value]
         ELSE [next |-> "sleep", out |-> Return(JNull), tr |-> rec.value]

\* lines 395-421: one pass of the polling loop over a fetched response.
\* next: "return" | "raise" | "sleep"; tr: the tracker afterwards
PollStep(response, tr, now, deadline, branch_id) ==
    LET st == StatusOf(response) IN
    IF st.k = "raise" THEN [next |-> "raise", out |-> st, tr |-> tr]
    ELSE LET status == st.value
             rec == RecordFromStatus(tr, response) IN
         IF status \in TerminalStatuses
         THEN IF rec.k = "raise"
              THEN [next |-> "raise", out |-> rec, tr |-> tr]
              ELSE [next |-> "return", out |-> Return(response), tr |-> rec.value]
         ELSE IF DeadlinePassed(now, deadline)
         THEN [next |-> "raise", out |-> TimedOut(branch_id, status), tr |-> tr]
         ELSE IF rec.k = "raise"
              THEN [next |-> "raise", out |-> rec, tr |-> tr]
              ELSE [next |-> "sleep", out |-> Return(JNull), tr |-> rec.value]

----------------------------------------------------------------------------
(* ToolHandler: handle and the three operations *)

NoPoll == [branch_id |-> JNull, deadline |-> 0, sleep_interval |-> 0, max_interval |-> 0,
           attempt |-> 0]

\* handle returns `result` (or an exception leaves it), the tracker being `tr`
Finish(result, tr) ==
    /\ hpc' = "done"
    /\ h_result' = result
    /\ tracker' = tr

\* the class of a get_branch response: by its status (unusable, terminal or
\* not) and by whether it carries a branch identifier
PollClass(response) ==
    IF StatusOf(response).k = "raise" THEN [status |-> "bad", id |-> FALSE]
    ELSE [status |-> IF StatusOf(response).value \in {"succeed", "failed"}
                     THEN "terminal" ELSE "running",
          id |-> Truthy(ExtractBranchId(response))]

\* lines 287-310, and the operation routed to as far as its first remote call
Handle(tc) ==
    LET name == tc.function.name
        parsed == ParseArguments(tc.function.arguments)
        NoCall(result) ==
            /\ Finish(result, tracker)
            /\ poll' = NoPoll
            /\ nremote' = 0
            /\ UNCHANGED <<clientVars, clock>>
    IN
    /\ tool_call' = tc
    /\ poll_seen' = {}
    /\ nhandles' = nhandles + 1
    /\ UNCHANGED <<default_project_name, max_branches>>
    /\ IF ~Truthy(name)
       THEN NoCall(Error(JStr("Missing tool name in call.")))
       ELSE IF parsed.k = "raise"
       THEN NoCall(Error(Fmt("Invalid JSON arguments: {}", << ExcStr(parsed.exc) >>)))
       ELSE CASE name = JStr("execute_agent") ->
                   LET v == ValidateExecute(parsed.value) IN
                   IF v.k = "raise" THEN NoCall(HandleOutcome(v))
                   ELSE /\ hpc' = "launch"
                        /\ h_result' = NoValue
                        /\ poll' = NoPoll
                        /\ nremote' = 1
                        /\ CallTool("parallel_explore", v.value)
                        /\ UNCHANGED <<tracker, clock>>
              [] name = JStr("check_status") ->
                   LET v == ValidateStatus(parsed.value) IN
                   IF v.k = "raise" THEN NoCall(HandleOutcome(v))
                   ELSE /\ hpc' = "poll"
                        /\ h_result' = NoValue
                        /\ poll' = [branch_id |-> v.value.branch_id,
                                    deadline |-> clock + v.value.timeout,
                                    sleep_interval |-> v.value.poll_interval,
                                    max_interval |-> v.value.max_interval,
                                    attempt |-> 1]
                        /\ nremote' = 1
                        /\ CallTool("get_branch", JDict([branch_id |-> v.value.branch_id]))
                        /\ UNCHANGED <<tracker, clock>>
              [] name = JStr("read_artifact") ->
                   LET v == ValidateRead(parsed.value) IN
                   IF v.k = "raise" THEN NoCall(HandleOutcome(v))
                   ELSE /\ hpc' = "read"
                        /\ h_result' = NoValue
                        /\ poll' = NoPoll
                        /\ nremote' = 1
                        /\ CallTool("branch_read_file",
                                    JDict([branch_id |-> v.value.branch_id,
                                           file_path |-> v.value.path]))
                        /\ UNCHANGED <<tracker, clock>>
              [] OTHER ->
                   NoCall(HandleOutcome(ToolError(Fmt("Unsupported tool: {}", << name >>))))

\* lines 348-366 and 311-318: parallel_explore has returned or raised
AfterLaunch ==
    /\ hpc = "launch"
    /\ cpc \in {"returned", "raised"}
    /\ LET lo == IF cpc = "raised" THEN [out |-> Raise(c_exc), id |-> JNull]
                 ELSE LaunchOutcome(c_value) IN
       Finish(HandleOutcome(lo.out),
              IF lo.out.k = "return" THEN Record(tracker, lo.id) ELSE tracker)
    /\ UNCHANGED <<clientVars, clock, default_project_name, max_branches, tool_call, poll,
                   nremote, poll_seen, nhandles, loopVars, recorded, brain, process, codec>>

\* lines 392-421 and 311-318: get_branch has returned or raised; one pass of the
\* polling loop, as far as the next fetch
AfterPoll ==
    /\ hpc = "poll"
    /\ cpc \in {"returned", "raised"}
    /\ IF cpc = "raised"
       THEN /\ Finish(HandleOutcome(Raise(c_exc)), tracker)
            /\ poll_seen' = poll_seen \cup {[status |-> "raised", id |-> FALSE]}
            /\ UNCHANGED <<clientVars, clock, poll, nremote>>
       ELSE LET step == PollStep(c_value, tracker, clock, poll.deadline, poll.branch_id) IN
            /\ poll_seen' = poll_seen \cup {PollClass(c_value)}
            /\ IF step.next = "sleep"
               THEN /\ poll.attempt < MaxPolls
                    /\ tracker' = step.tr
                    /\ clock' = clock + poll.sleep_interval
                    /\ poll' = [poll EXCEPT
                                  !.sleep_interval = GrowInterval(@, poll.max_interval),
                                  !.attempt = @ + 1]
                    /\ CallTool("get_branch", JDict([branch_id |-> poll.branch_id]))
                    /\ nremote' = nremote + 1
                    /\ UNCHANGED <<hpc, h_result>>
               ELSE /\ Finish(HandleOutcome(step.out), step.tr)
                    /\ UNCHANGED <<clientVars, clock, poll, nremote>>
    /\ UNCHANGED <<default_project_name, max_branches, tool_call, nhandles, loopVars, recorded, brain, process, codec>>

\* lines 431 and 311-318: branch_read_file has returned or raised
AfterReadRecording ==
    /\ hpc = "read"
    /\ cpc \in {"returned", "raised"}
    /\ Finish(HandleOutcome(IF cpc = "raised" THEN Raise(c_exc) ELSE Return(c_value)),
              Record(tracker, Item(payload.params.arguments, "branch_id")))
    /\ UNCHANGED <<clientVars, clock, default_project_name, max_branches, tool_call, poll,
                   nremote, poll_seen, nhandles, loopVars, recorded, brain, process, codec>>

AfterRead ==
    /\ hpc = "read"
    /\ cpc \in {"returned", "raised"}
    /\ Finish(HandleOutcome(IF cpc = "raised" THEN Raise(c_exc) ELSE Return(c_value)), tracker)
    /\ UNCHANGED <<clientVars, clock, default_project_name, max_branches, tool_call, poll,
                   nremote, poll_seen, nhandles, loopVars, recorded, brain, process, codec>>

\* lines 274-285
HandlerInit ==
    /\ default_project_name \in {JNull, JStr("proj")}
    /\ max_branches = DEFAULT_MAX_BRANCHES
    /\ tracker = NewTracker(IF default_project_name = JNull THEN JNull ELSE JStr("b0"))
    /\ hpc = "idle"
    /\ tool_call = [id |-> "", type |-> "function",
                    function |-> [name |-> JNull, arguments |-> [t |-> "none"]]]
    /\ poll = NoPoll
    /\ h_result = NoValue
    /\ nremote = 0
    /\ poll_seen = {}
    /\ nhandles = 0

----------------------------------------------------------------------------
(* The tool calls the dispatcher is given *)

ToolCall(id, name, text) ==
    [id |-> id, type |-> "function", function |-> [name |-> name, arguments |-> text]]
JsonText(j) == [t |-> "json", v |-> j]

Half == TicksPerSecond \div 2

StatusArguments ==
    { JDict([branch_id |-> JStr("b1"), timeout_seconds |-> JInt(1),
             poll_interval_seconds |-> JInt(1), max_poll_interval_seconds |-> JInt(1)]),
      JDict([branch_id |-> JStr("b1"), timeout_seconds |-> JInt(5),
             poll_interval_seconds |-> JInt(2), max_poll_interval_seconds |-> JInt(30)]),
      JDict([branch_id |-> JStr("b1"), timeout_seconds |-> JInt(1800),
             poll_interval_seconds |-> JInt(2), max_poll_interval_seconds |-> JInt(30)]),
      JDict([branch_id |-> JStr("b1"), timeout_seconds |-> JFloat(3 * Half),
             poll_interval_seconds |-> JFloat(Half), max_poll_interval_seconds |-> JInt(1)]),
      JDict([branch_id |-> JStr("b1")]),
      JDict([branch_id |-> JStr("b1"), timeout_seconds |-> JInt(0)]),
      JDict([branch_id |-> JStr("b1"), timeout_seconds |-> JStr("5")]),
      JDict([branch_id |-> JStr("b1"), poll_interval_seconds |-> JInt(-1)]),
      JDict([branch_id |-> JStr("b1"), poll_interval_seconds |-> JInt(10),
             max_poll_interval_seconds |-> JInt(5)]),
      JDict([branch_id |-> JInt(7)]),
      EmptyDict }

ExecuteArguments ==
    { JDict([agent |-> JStr("codex"), prompt |-> JStr("review"),
             parent_branch_id |-> JStr("b0"), project_name |-> JStr("proj")]),
      JDict([agent |-> JStr("claude_code"), prompt |-> JStr("implement"),
             parent_branch_id |-> JStr("b0"), num_branches |-> JInt(4)]),
      JDict([agent |-> JStr("codex"), prompt |-> JStr("review"),
             parent_branch_id |-> JStr("b0"), project_name |-> JStr("proj"),
             num_branches |-> JInt(5)]),
      JDict([agent |-> JStr("codex"), prompt |-> JStr("review"),
             parent_branch_id |-> JStr("b0"), project_name |-> JStr("proj"),
             num_branches |-> JInt(0)]),
      JDict([agent |-> JStr("codex"), prompt |-> JStr(""),
             parent_branch_id |-> JStr("b0"), project_name |-> JStr("proj")]),
      JDict([agent |-> JStr("codex"), prompt |-> JStr("review"),
             parent_branch_id |-> JStr("b0"), project_name |-> JStr("proj"),
             num_branches |-> JStr("2")]),
      JDict([prompt |-> JStr("review"), parent_branch_id |-> JStr("b0"),
             project_name |-> JStr("proj")]),
      JDict([agent |-> JStr("codex"), prompt |-> JStr("review"),
             project_name |-> JStr("proj")]) }

ReadArguments ==
    { JDict([branch_id |-> JStr("b1"), path |-> JStr("codex_review.log")]),
      JDict([branch_id |-> JStr("b1")]),
      JDict([path |-> JStr("worklog.md")]) }

ToolCalls ==
    { ToolCall("call_s", JStr("check_status"), JsonText(a)) : a \in StatusArguments }
    \cup { ToolCall("call_e", JStr("execute_agent"), JsonText(a)) : a \in ExecuteArguments }
    \cup { ToolCall("call_r", JStr("read_artifact"), JsonText(a)) : a \in ReadArguments }
    \cup { ToolCall("call_x", JStr("check_status"), [t |-> "raw"]),
           ToolCall("call_x", JStr("read_artifact"), [t |-> "empty"]),
           ToolCall("call_x", JStr("execute_agent"), [t |-> "none"]),
           ToolCall("call_x", JStr("check_status"), JsonText(JList(<< JStr("b1") >>))),
           ToolCall("call_x", JStr("execute_agent"), JsonText(JNull)),
           ToolCall("call_x", JStr("read_artifact"), [t |-> "raw"]),
           ToolCall("call_x", JStr("run_shell"), JsonText(EmptyDict)),
           ToolCall("call_x", JNull, JsonText(EmptyDict)),
           ToolCall("call_x", JStr(""), JsonText(EmptyDict)) }

----------------------------------------------------------------------------
(* The conversation loop: values *)

\* main.py line 25
MAX_ITERATIONS == 20

\* an assistant message: content (None, "" or text) and tool_calls (None or a list)
Message(content, tool_calls) == [content |-> content, tool_calls |-> tool_calls]
NoMessage == Message([t |-> "none"], JNull)

ParseFinalReportNever(message) == JNull

\* main.py lines 221-234: the final report of a message, or None
ParseFinalReport(message) ==
    LET content == message.content IN
    IF content.t \in {"none", "empty"} THEN JNull
    ELSE IF content.t # "json" THEN JNull
    ELSE IF ~IsDict(content.v) THEN JNull
    ELSE IF Get(content.v, "type") # JStr("final_report") THEN JNull
    ELSE content.v

HasToolCallsUnlessReport(message) ==
    Truthy(message.tool_calls) /\ ~Truthy(ParseFinalReport(message))

\* main.py lines 249-250 (309-310): `getattr(choice, "tool_calls", None) or []`
HasToolCalls(message) == Truthy(message.tool_calls)

\* main.py lines 201-218 (289-307): the assistant turn of a message
AssistantTurn(message) ==
    LET content == IF message.content.t = "none" THEN [t |-> "empty"] ELSE message.content IN
    IF Truthy(message.tool_calls)
    THEN [role |-> "assistant", content |-> content,
          tool_calls |-> [i \in 1..Len(message.tool_calls.v) |->
                            LET call == message.tool_calls.v[i] IN
                            [id |-> call.id, type |-> call.type,
                             function |-> [name |-> call.function.name,
                                           arguments |-> call.function.arguments]]]]
    ELSE [role |-> "assistant", content |-> content]

ChatAssistantTurnBare(message) ==
    [role |-> "assistant",
     content |-> IF message.content.t = "none" THEN [t |-> "empty"] ELSE message.content]

\* main.py lines 287-307: the assistant turn chat_loop builds in place
ChatAssistantTurn(message) ==
    LET head == [role |-> "assistant",
                 content |-> IF message.content.t = "none" THEN [t |-> "empty"]
                             ELSE message.content]
        calls == IF Truthy(message.tool_calls) THEN message.tool_calls.v ELSE << >>
    IN
    IF Truthy(message.tool_calls)
    THEN [role |-> head.role, content |-> head.content,
          tool_calls |-> [i \in 1..Len(calls) |->
                            [id |-> calls[i].id, type |-> calls[i].type,
                             function |-> [name |-> calls[i].function.name,
                                           arguments |-> calls[i].function.arguments]]]]
    ELSE head

\* the assistant turn of a message in the loop `v`
TurnOf(v, message) ==
    IF v = "chat_loop" THEN ChatAssistantTurn(message) ELSE AssistantTurn(message)

\* json.dumps(result): the text of a result
JsonDumps(result) == [t |-> "json", v |-> result]

ToolTurnUnnamed(call, result) ==
    [role |-> "tool", tool_call_id |-> "", content |-> JsonDumps(result)]

\* main.py lines 254-260 (317-323): the tool turn of a call and its result
ToolTurn(call, result) ==
    [role |-> "tool", tool_call_id |-> call.id, content |-> JsonDumps(result)]

AppendTurnUnlessError(history, turn) ==
    IF turn.role = "tool" /\ turn.content.v.v.status = JStr("error") THEN history
    ELSE Append(history, turn)

ReplaceLastTurn(history, turn) == [history EXCEPT ![Len(history)] = turn]

\* main.py lines 248 and 254 (287 and 317): messages.append(turn)
AppendTurn(history, turn) == Append(history, turn)

\* main.py lines 182-198: the system turn and the user turn
InitialMessages ==
    << [role |-> "system", content |-> JStr("SYSTEM_PROMPT")],
       [role |-> "user",
        content |-> JsonDumps(JDict([task |-> JStr("t"), parent_branch_id |-> JStr("b0"),
                                     project_name |-> JStr("proj")]))] >>

AfterToolsSameIteration(i) == i

\* main.py line 262 (325): `continue` goes on to the next value of the loop variable
AfterToolsIteration(i) == i + 1

----------------------------------------------------------------------------
(* The conversation loop: what the model answers *)

FinalReport == JDict([type |-> JStr("final_report"), task |-> JStr("t"), summary |-> JStr("s")])

\* contents that are no final report: text that is no JSON, an object of another
\* type, a list
OtherContents ==
    { [t |-> "raw"],
      JsonDumps(JDict([type |-> JStr("progress"), summary |-> JStr("s")])),
      JsonDumps(JList(<< JStr("final_report") >>)) }

\* the tool calls a reply asks for
RequestedCalls ==
    { << ToolCall("call_1", JStr("execute_agent"),
                  JsonText(JDict([agent |-> JStr("codex"), prompt |-> JStr("review"),
                                  parent_branch_id |-> JStr("b0")]))) >>,
      << ToolCall("call_1", JStr("check_status"),
                  JsonText(JDict([branch_id |-> JStr("b1"), timeout_seconds |-> JInt(1),
                                  poll_interval_seconds |-> JInt(1),
                                  max_poll_interval_seconds |-> JInt(1)]))),
         ToolCall("call_2", JStr("read_artifact"), JsonText(JDict([branch_id |-> JStr("b1")]))) >> }

\* a reply with neither content nor tool calls
EmptyReply == Message([t |-> "none"], JNull)

\* a final report that names no task
BareReport == JDict([type |-> JStr("final_report"), summary |-> JStr("s")])

\* replies that end the loop
FinalReplies ==
    { Message(JsonDumps(FinalReport), tcs) : tcs \in {JNull, JList(<< >>)} }
    \cup { Message(JsonDumps(BareReport), JNull) }

\* replies that ask for tool calls, one of them with a final report as content
ToolReplies ==
    { Message([t |-> "none"], JList(calls)) : calls \in RequestedCalls }
    \cup { Message(JsonDumps(FinalReport),
                   JList(<< ToolCall("call_9", JStr("read_artifact"),
                                     JsonText(JDict([branch_id |-> JStr("b1"),
                                                     path |-> JStr("worklog.md")]))) >>)) }

\* replies that neither ask for a tool nor are a final report
OtherReplies == { Message(c, JNull) : c \in OtherContents }

\* main.py lines 140-173: brain.complete returns a response or, its retries used
\* up, raises the last exception
CompletionOutcomes ==
    { Return(m) : m \in {EmptyReply} \cup FinalReplies \cup ToolReplies \cup OtherReplies }
    \cup { Raise(Exc("APIError", JNull)) }

IsEventful(message) == message \in ToolReplies \cup OtherReplies

\* what brain.complete comes to in a run of the whole process: a reply without
\* content, a final report, a request to launch or to read an artifact (the
\* latter with a final report as content), or the last exception
ProcessOutcomes ==
    { Return(m) : m \in {EmptyReply} \cup FinalReplies }
    \cup { Return(m) : m \in ToolReplies }
    \cup { Raise(Exc("APIError", JNull)) }

----------------------------------------------------------------------------
(* The conversation loop: orchestrate and chat_loop *)

\* no process: the loops, the dispatcher or the client run on their own
NoProcess ==
    [ppc |-> "none", task |-> JNull, parent_branch_id |-> JNull, stdout |-> << >>,
     status |-> -1]

\* the completions a loop gets, on its own and in a run of the whole process
QuietOutcomes(outcomes) == { o \in outcomes : o.k = "raise" \/ ~IsEventful(o.value) }

Completions ==
    LET outcomes == IF process.ppc = "none" THEN CompletionOutcomes ELSE ProcessOutcomes IN
    IF iteration <= MaxToolIteration THEN outcomes ELSE QuietOutcomes(outcomes)

\* chat_loop beside orchestrate: its locals and what it has done
TwinIdle ==
    [lpc |-> "idle", max_iterations |-> 0, iteration |-> 0, messages |-> << >>,
     choice |-> NoMessage, tc_index |-> 0, loop_result |-> NoValue, ncompletions |-> 0,
     handled |-> << >>]

\* main.py lines 282 and 333-334
ChatAdvance(tw, i) ==
    IF i <= tw.max_iterations
    THEN [tw EXCEPT !.lpc = "complete", !.iteration = i, !.loop_result = NoValue]
    ELSE [tw EXCEPT !.lpc = "returned", !.loop_result = JNull]

\* main.py lines 273-282: chat_loop entered with its default max_iterations
ChatStarted(history) ==
    ChatAdvance([TwinIdle EXCEPT !.messages = history, !.max_iterations = MAX_ITERATIONS], 1)

\* main.py lines 284-330: chat_loop given the completion outcome `out`
ChatCompleted(tw, out) ==
    IF tw.lpc # "complete" THEN [tw EXCEPT !.lpc = "diverged"]
    ELSE LET called == [tw EXCEPT !.ncompletions = @ + 1] IN
         IF out.k = "raise"
         THEN [called EXCEPT !.lpc = "raised", !.loop_result = Propagated(out.exc)]
         ELSE LET message == out.value
                  turned == [called EXCEPT !.choice = message,
                                           !.messages = Append(@, ChatAssistantTurn(message))]
              IN
              IF Truthy(message.tool_calls)
              THEN [turned EXCEPT !.lpc = "tools", !.tc_index = 1]
              ELSE IF Truthy(ParseFinalReport(message))
              THEN [turned EXCEPT !.lpc = "returned", !.tc_index = 0,
                                  !.loop_result = ParseFinalReport(message)]
              ELSE ChatAdvance([turned EXCEPT !.tc_index = 0], tw.iteration + 1)

\* main.py line 316: chat_loop calls the dispatcher; `call` is what orchestrate
\* gives it at this point
ChatHandling(tw, call) ==
    IF tw.lpc = "tools" /\ tw.choice.tool_calls.v[tw.tc_index] = call
    THEN [tw EXCEPT !.lpc = "handling"]
    ELSE [tw EXCEPT !.lpc = "diverged"]

\* main.py lines 317-325: chat_loop given the dispatcher's result
ChatAppended(tw, result) ==
    IF tw.lpc # "handling" THEN [tw EXCEPT !.lpc = "diverged"]
    ELSE IF result.t = "raised" THEN [tw EXCEPT !.lpc = "raised", !.loop_result = result]
    ELSE LET call == tw.choice.tool_calls.v[tw.tc_index]
             turned == [tw EXCEPT !.messages = Append(@, ToolTurn(call, result)),
                                  !.handled = Append(@, [call |-> call, result |-> result])]
         IN
         IF tw.tc_index < Len(tw.choice.tool_calls.v)
         THEN [turned EXCEPT !.lpc = "tools", !.tc_index = @ + 1]
         ELSE ChatAdvance([turned EXCEPT !.tc_index = 0], AfterToolsIteration(tw.iteration))

LoopIdle ==
    /\ lpc = "idle"
    /\ variant = "none"
    /\ max_iterations = 0
    /\ iteration = 0
    /\ messages = << >>
    /\ choice = NoMessage
    /\ tc_index = 0
    /\ loop_result = NoValue
    /\ ncompletions = 0
    /\ handled = << >>
    /\ eventful = 0
    /\ twin = TwinIdle

\* main.py lines 245 and 269-270 (282 and 333-334): the for statement takes the
\* value i, or the range is used up and the loop returns None
Advance(i, cap) ==
    IF i <= cap
    THEN /\ lpc' = "complete"
         /\ iteration' = i
         /\ loop_result' = NoValue
    ELSE /\ lpc' = "returned"
         /\ iteration' = iteration
         /\ loop_result' = JNull

\* entering a loop with cap `cap`
StartLoop(v, cap) ==
    /\ lpc = "idle"
    /\ variant' = v
    /\ max_iterations' = cap
    /\ messages' = InitialMessages
    /\ Advance(1, cap)
    /\ twin' = IF v = "orchestrate" THEN ChatStarted(InitialMessages) ELSE twin
    /\ UNCHANGED <<choice, tc_index, ncompletions, handled, eventful>>
    /\ UNCHANGED <<clientVars, clock, handlerVars, recorded, brain, process, codec>>

\* main.py lines 237-245
Orchestrate ==
    /\ lpc = "idle"
    /\ StartLoop("orchestrate", MAX_ITERATIONS)

\* main.py lines 273-282
ChatLoop ==
    /\ lpc = "idle"
    /\ \E n \in 0..MaxChatIterations : StartLoop("chat_loop", n)

\* main.py lines 247-267 (284-330): the completion of an iteration and what the
\* loop does with a reply that asks for no tool
LoopComplete ==
    /\ lpc = "complete"
    /\ ncompletions' = ncompletions + 1
    /\ \E out \in Completions :
         /\ twin' = IF variant = "orchestrate" THEN ChatCompleted(twin, out) ELSE twin
         /\ IF out.k = "raise"
            THEN /\ lpc' = "raised"
                 /\ loop_result' = Propagated(out.exc)
                 /\ UNCHANGED <<iteration, messages, choice, tc_index, eventful>>
            ELSE LET message == out.value
                     final_report == ParseFinalReport(message) IN
                 /\ IsEventful(message) => eventful < MaxEventful
                 /\ eventful' = IF IsEventful(message) THEN eventful + 1 ELSE eventful
                 /\ choice' = message
                 /\ messages' = AppendTurn(messages, TurnOf(variant, message))
                 /\ IF HasToolCalls(message)
                    THEN /\ lpc' = "tools"
                         /\ tc_index' = 1
                         /\ UNCHANGED <<iteration, loop_result>>
                    ELSE /\ tc_index' = 0
                         /\ IF Truthy(final_report)
                            THEN /\ lpc' = "returned"
                                 /\ loop_result' = final_report
                                 /\ UNCHANGED iteration
                            ELSE Advance(iteration + 1, max_iterations)
    /\ UNCHANGED <<variant, max_iterations, handled>>
    /\ UNCHANGED <<clientVars, clock, handlerVars, recorded, brain, process, codec>>

\* main.py line 253 (316): handler.handle(tool_call)
LoopHandle ==
    /\ lpc = "tools"
    /\ Handle(choice.tool_calls.v[tc_index])
    /\ lpc' = "handling"
    /\ twin' = IF variant = "orchestrate"
               THEN ChatHandling(twin, choice.tool_calls.v[tc_index]) ELSE twin
    /\ UNCHANGED <<variant, max_iterations, iteration, messages, choice, tc_index,
                   loop_result, ncompletions, handled, eventful, recorded, brain, process, codec>>

\* main.py lines 254-262 (317-325): handle is back; the tool turn is appended and
\* the next call or the next iteration follows
LoopAppend ==
    /\ lpc = "handling"
    /\ hpc = "done"
    /\ twin' = IF variant = "orchestrate" THEN ChatAppended(twin, h_result) ELSE twin
    /\ IF h_result.t = "raised"
       THEN /\ lpc' = "raised"
            /\ loop_result' = h_result
            /\ UNCHANGED <<iteration, messages, tc_index, handled>>
       ELSE /\ messages' = AppendTurn(messages,
                                    ToolTurn(choice.tool_calls.v[tc_index], h_result))
            /\ handled' = Append(handled, [call |-> tool_call, result |-> h_result])
            /\ IF tc_index < Len(choice.tool_calls.v)
               THEN /\ lpc' = "tools"
                    /\ tc_index' = tc_index + 1
                    /\ UNCHANGED <<iteration, loop_result>>
               ELSE /\ tc_index' = 0
                    /\ Advance(AfterToolsIteration(iteration), max_iterations)
    /\ UNCHANGED <<variant, max_iterations, choice, ncompletions, eventful>>
    /\ UNCHANGED <<clientVars, clock, handlerVars, recorded, brain, process, codec>>

----------------------------------------------------------------------------
(* main *)

\* a line of text printed on standard output
Line(prefix, text) == [k |-> "line", prefix |-> prefix, text |-> text]
\* print(json.dumps(obj, indent=2)): a JSON document printed on standard output
Document(obj) == [k |-> "json", v |-> obj]

\* main.py lines 283-330: what chat_loop prints for the turn it appends
TurnLines(turn) ==
    IF turn.role = "tool"
    THEN << Line("tool> ", JStr(turn.tool_call_id)), Line("tool< ", turn.content) >>
    ELSE << Line("[iter] requesting completion...", [t |-> "empty"]) >>
         \o (IF turn.content.t = "empty" THEN << >>
             ELSE << Line("assistant> ", turn.content) >>)
         \o (IF "tool_calls" \in DOMAIN turn THEN << >>
             ELSE IF Truthy(ParseFinalReport(Message(turn.content, JNull)))
             THEN << Line("assistant< final_report", [t |-> "empty"]) >>
             ELSE << Line("assistant< not final yet, continuing...", [t |-> "empty"]) >>)

RECURSIVE LinesFrom(_, _)
LinesFrom(history, i) ==
    IF i > Len(history) THEN << >>
    ELSE TurnLines(history[i]) \o LinesFrom(history, i + 1)

\* what the loop has printed on standard output: nothing in orchestrate; in
\* chat_loop the lines of the turns after the two initial ones, and the line of
\* an iteration whose completion raised
LoopLines ==
    IF variant # "chat_loop" THEN << >>
    ELSE LinesFrom(messages, 3)
         \o (IF lpc = "raised"
             THEN << Line("[iter] requesting completion...", [t |-> "empty"]) >>
             ELSE << >>)

PrintedReportWithoutIds(final_report, tr, task) ==
    JDict([key \in DOMAIN final_report.v \cup {"task"} |->
             IF key \in DOMAIN final_report.v THEN final_report.v[key] ELSE task])

\* main.py lines 385-392: the report with the tracker's identifiers, when they
\* are truthy, and the task when the report names none
PrintedReport(final_report, tr, task) ==
    LET ids == (IF Truthy(tr.start) THEN {"start_branch_id"} ELSE {})
               \cup (IF Truthy(tr.latest) THEN {"latest_branch_id"} ELSE {}) IN
    JDict([key \in DOMAIN final_report.v \cup ids \cup {"task"} |->
             IF key = "start_branch_id" /\ key \in ids THEN tr.start
             ELSE IF key = "latest_branch_id" /\ key \in ids THEN tr.latest
             ELSE IF key \in DOMAIN final_report.v THEN final_report.v[key]
             ELSE task])

\* the arguments main is started with: a task and a parent branch identifier
StartProcess(task, parent_branch_id) ==
    [ppc |-> "start", task |-> task, parent_branch_id |-> parent_branch_id,
     stdout |-> << >>, status |-> -1]

\* main.py lines 362-365: a blank task ends the process with status 1
MainReject ==
    /\ process.ppc = "start"
    /\ Strip(process.task.v) = ""
    /\ process' = [process EXCEPT !.ppc = "exited", !.status = 1]
    /\ UNCHANGED <<clientVars, clock, handlerVars, loopVars, recorded, brain, codec>>

MainSetupUnseeded ==
    /\ process.ppc = "start"
    /\ Strip(process.task.v) # ""
    /\ process' = [process EXCEPT !.ppc = "ready"]
    /\ tracker' = NewTracker(JNull)
    /\ UNCHANGED <<default_project_name, max_branches, hpc, tool_call, poll, h_result,
                   nremote, poll_seen, nhandles>>
    /\ UNCHANGED <<clientVars, clock, loopVars, recorded, brain, codec>>

\* main.py lines 367-379: the client, the dispatcher with its tracker seeded with
\* the parent branch, and the initial messages
MainSetup ==
    /\ process.ppc = "start"
    /\ Strip(process.task.v) # ""
    /\ process' = [process EXCEPT !.ppc = "ready"]
    /\ tracker' = NewTracker(process.parent_branch_id)
    /\ UNCHANGED <<default_project_name, max_branches, hpc, tool_call, poll, h_result,
                   nremote, poll_seen, nhandles>>
    /\ UNCHANGED <<clientVars, clock, loopVars, recorded, brain, codec>>

\* main.py line 380, headless
MainOrchestrate ==
    /\ process.ppc = "ready"
    /\ Orchestrate

\* main.py line 380, chat: chat_loop with its default max_iterations
MainChatLoop ==
    /\ process.ppc = "ready"
    /\ lpc = "idle"
    /\ StartLoop("chat_loop", MAX_ITERATIONS)

\* main.py lines 380-394: the loop is over.  An exception that left it ends the
\* process with a traceback on the error stream and status 1
MainExit ==
    /\ process.ppc = "ready"
    /\ lpc \in {"returned", "raised"}
    /\ LET final_report == IF lpc = "returned" THEN loop_result ELSE JNull IN
       IF ~Truthy(final_report)
       THEN process' = [process EXCEPT !.ppc = "exited", !.status = 1,
                                       !.stdout = LoopLines]
       ELSE process' = [process EXCEPT
                          !.ppc = "exited", !.status = 0,
                          !.stdout = Append(LoopLines,
                                            Document(PrintedReport(final_report, tracker,
                                                                   process.task)))]
    /\ UNCHANGED <<clientVars, clock, handlerVars, loopVars, recorded, brain, codec>>

----------------------------------------------------------------------------
(* LLMBrain.complete *)

\* main.py lines 123-137: a wrapper constructed with max_retries
NewBrain(n) ==
    [max_retries |-> n, bpc |-> "idle", attempt |-> 0, last_exception |-> NoExc,
     value |-> NoValue, exc |-> NoExc, ncalls |-> 0, creates |-> << >>, sleeps |-> << >>]

\* what one chat.completions.create call comes to: a response or an exception
CreateOutcomes ==
    { Return(m) : m \in {EmptyReply} \cup FinalReplies }
    \cup { Raise(Exc(e, JNull)) : e \in {"APIError", "RateLimitError"} }

BrainWaitTimeTripled(att) == 3 ^ att

\* main.py line 159
BrainWaitTime(att) == 2 ^ att

\* main.py lines 140-144: entering complete
Complete ==
    /\ brain.bpc \in {"idle", "returned", "raised"}
    /\ brain.ncalls < MaxCalls
    /\ brain' = [brain EXCEPT !.bpc = "attempt", !.attempt = 0, !.last_exception = NoExc,
                              !.value = NoValue, !.exc = NoExc, !.ncalls = @ + 1,
                              !.creates = << >>, !.sleeps = << >>]
    /\ UNCHANGED <<clientVars, clock, handlerVars, loopVars, recorded, process, codec>>

\* main.py lines 144-171: one iteration of the retry loop
CompleteAttempt ==
    /\ brain.bpc = "attempt"
    /\ brain.attempt < brain.max_retries
    /\ \E o \in CreateOutcomes :
         LET created == [brain EXCEPT !.creates = Append(@, o)] IN
         IF o.k = "return"
         THEN /\ brain' = [created EXCEPT !.bpc = "returned", !.value = o.value]
              /\ UNCHANGED clock
         ELSE LET failed == [created EXCEPT !.last_exception = o.exc, !.attempt = @ + 1] IN
              IF brain.attempt < brain.max_retries - 1
              THEN /\ brain' = [failed EXCEPT
                                  !.sleeps = Append(@, BrainWaitTime(brain.attempt))]
                   /\ clock' = clock + BrainWaitTime(brain.attempt) * TicksPerSecond
              ELSE /\ brain' = failed
                   /\ UNCHANGED clock
    /\ UNCHANGED <<clientVars, handlerVars, loopVars, recorded, process, codec>>

\* main.py line 173: the loop is over
CompleteRaise ==
    /\ brain.bpc = "attempt"
    /\ brain.attempt >= brain.max_retries
    /\ brain' = [brain EXCEPT
                   !.bpc = "raised",
                   !.exc = IF brain.last_exception # NoExc THEN brain.last_exception
                           ELSE Exc("RuntimeError", JStr("Unknown Azure OpenAI API error"))]
    /\ UNCHANGED <<clientVars, clock, handlerVars, loopVars, recorded, process, codec>>

----------------------------------------------------------------------------
(* The client on its own: a driver makes up to MaxCalls calls *)

\* lines 210-233: the three remote procedures
RemoteProcedures ==
    { [name |-> "parallel_explore",
       arguments |-> JDict([project_name |-> JStr("proj"), parent_branch_id |-> JStr("b0"),
                            shared_prompt_sequence |-> JList(<< JStr("do it") >>),
                            num_branches |-> JInt(1), agent |-> JStr("codex")])],
      [name |-> "get_branch", arguments |-> JDict([branch_id |-> JStr("b1")])],
      [name |-> "branch_read_file",
       arguments |-> JDict([branch_id |-> JStr("b1"), file_path |-> JStr("worklog.md")])] }

RpcCall ==
    /\ cpc \in {"idle", "returned", "raised"}
    /\ ncalls < MaxCalls
    /\ \E p \in RemoteProcedures : CallTool(p.name, p.arguments)
    /\ UNCHANGED <<clock, handlerVars, loopVars, recorded, brain, process, codec>>

\* lines 25-39
ClientInit ==
    /\ max_retries \in 0..MaxRetries
    /\ request_id = 0
    /\ cpc = "idle"
    /\ payload = [jsonrpc |-> "2.0", id |-> 0, method |-> "", params |-> [name |-> "", arguments |-> EmptyDict]]
    /\ attempt = 0
    /\ last_exception = NoExc
    /\ c_value = NoValue
    /\ c_exc = NoExc
    /\ ncalls = 0
    /\ posts = << >>
    /\ sleeps = << >>
    /\ last_outcome = NoOutcome
    /\ seen = {}

RpcInit ==
    ClientInit /\ HandlerInit /\ default_project_name = JStr("proj") /\ LoopIdle /\ clock = 0
    /\ recorded = << >>
    /\ brain = NewBrain(0)
    /\ process = NoProcess
    /\ codec = NoCodec

RpcNext == RpcCall \/ CallAttempt \/ CallRaise

SpecRpc == RpcInit /\ [][RpcNext]_vars

----------------------------------------------------------------------------
(* The dispatcher over the client: a driver hands it a tool call *)

ToolDriver ==
    /\ hpc = "idle"
    /\ \E tc \in ToolCalls : Handle(tc)
    /\ UNCHANGED <<loopVars, recorded, brain, process, codec>>

ToolInit ==
    /\ ClientInit
    /\ max_retries \in 1..MaxToolRetries
    /\ HandlerInit
    /\ LoopIdle
    /\ clock = 0
    /\ recorded = << >>
    /\ brain = NewBrain(0)
    /\ process = NoProcess
    /\ codec = NoCodec

ToolNext == ToolDriver \/ CallAttempt \/ CallRaise \/ AfterLaunch \/ AfterPoll \/ AfterRead

SpecTool == ToolInit /\ [][ToolNext]_vars

----------------------------------------------------------------------------
(* The loop over the dispatcher and the client *)

\* main.py lines 237-241: the loop is given a dispatcher over a client that makes
\* one attempt
LoopInit ==
    /\ ClientInit
    /\ max_retries = 1
    /\ HandlerInit
    /\ default_project_name = JStr("proj")
    /\ LoopIdle
    /\ clock = 0
    /\ recorded = << >>
    /\ brain = NewBrain(0)
    /\ process = NoProcess
    /\ codec = NoCodec

LoopNext ==
    \/ Orchestrate \/ ChatLoop \/ LoopComplete \/ LoopHandle \/ LoopAppend
    \/ CallAttempt \/ CallRaise \/ AfterLaunch \/ AfterPoll \/ AfterRead

SpecLoop == LoopInit /\ [][LoopNext]_vars

----------------------------------------------------------------------------
(* The tracker on its own: a driver makes up to MaxRecords record calls *)

\* what record is called with: None, the empty string, strings, a number
RecordedIds == { JNull, JStr(""), JStr("a"), JStr("b"), JInt(7) }

\* lines 249-254: one call of record
TrackerRecord ==
    /\ Len(recorded) < MaxRecords
    /\ \E branch_id \in RecordedIds :
         /\ tracker' = Record(tracker, branch_id)
         /\ recorded' = Append(recorded, branch_id)
    /\ UNCHANGED <<default_project_name, max_branches, hpc, tool_call, poll, h_result,
                   nremote, poll_seen, nhandles>>
    /\ UNCHANGED <<clientVars, clock, loopVars, brain, process, codec>>

\* lines 245-247: a tracker constructed without a start identifier
TrackerInit ==
    /\ ClientInit
    /\ max_retries = MaxRetries
    /\ HandlerInit
    /\ tracker = NewTracker(JNull)
    /\ LoopIdle
    /\ clock = 0
    /\ recorded = << >>
    /\ brain = NewBrain(0)
    /\ process = NoProcess
    /\ codec = NoCodec

TrackerNext == TrackerRecord

SpecTracker == TrackerInit /\ [][TrackerNext]_vars

----------------------------------------------------------------------------
(* The completion wrapper on its own: a driver makes up to MaxCalls calls *)

\* main.py lines 123-137
BrainInit ==
    /\ ClientInit
    /\ max_retries = MaxRetries
    /\ HandlerInit
    /\ default_project_name = JStr("proj")
    /\ LoopIdle
    /\ clock = 0
    /\ recorded = << >>
    /\ \E n \in 0..MaxRetries : brain = NewBrain(n)
    /\ process = NoProcess
    /\ codec = NoCodec

BrainNext == Complete \/ CompleteAttempt \/ CompleteRaise

SpecBrain == BrainInit /\ [][BrainNext]_vars

----------------------------------------------------------------------------
(* The process: main over the loop, the dispatcher and the client *)

\* main.py lines 337-365: the command line gives a task and a parent branch
\* identifier, possibly empty
MainInit ==
    /\ ClientInit
    /\ max_retries = 1
    /\ HandlerInit
    /\ default_project_name = JStr("proj")
    /\ LoopIdle
    /\ clock = 0
    /\ recorded = << >>
    /\ brain = NewBrain(0)
    /\ \E task \in {JStr("t"), JStr("  ")}, parent_branch_id \in {JStr("b0"), JStr("")} :
         process = StartProcess(task, parent_branch_id)
    /\ codec = NoCodec

MainNext ==
    \/ MainReject \/ MainSetup \/ MainOrchestrate \/ MainChatLoop \/ MainExit
    \/ LoopComplete \/ LoopHandle \/ LoopAppend
    \/ CallAttempt \/ CallRaise \/ AfterLaunch \/ AfterPoll \/ AfterRead

SpecMain == MainInit /\ [][MainNext]_vars

----------------------------------------------------------------------------
(* The codec on its own: it is given the text of one event stream *)

\* the lines a stream is made of: data lines that hold an object, an array, the
\* two halves of an array and a number; the blank line; a comment; an event
\* field; a line without a colon
DataObject == <<"data", ":", "SP", "{", "a", ":", "1", "}">>
DataArray == <<"data", ":", "[", "2", "]">>
DataOpening == <<"data", ":", "SP", "[", "1", ",">>
DataClosing == <<"data", ":", "SP", "2", "]">>
DataNumber == <<"data", ":", "SP", "1">>
BlankLine == << >>
CommentLine == <<":", "SP", "{", "a", ":", "2", "}">>
EventLine == <<"event", ":", "SP", "x">>
WordLine == <<"x">>

SseLines ==
    { DataObject, DataArray, DataOpening, DataClosing, DataNumber, BlankLine,
      CommentLine, EventLine, WordLine }

SseBodies == UNION { [1..n -> SseLines] : n \in 0..MaxSseLines }

RECURSIVE Render(_, _)
\* the text of the lines, broken by LF or by CR LF
Render(lines, crlf) ==
    IF lines = << >> THEN << >>
    ELSE IF Len(lines) = 1 THEN lines[1]
    ELSE lines[1] \o (IF crlf THEN <<"CR", "LF">> ELSE <<"LF">>) \o Render(Tail(lines), crlf)

SseInit ==
    /\ ClientInit
    /\ max_retries = 1
    /\ HandlerInit
    /\ default_project_name = JNull
    /\ LoopIdle
    /\ clock = 0
    /\ recorded = << >>
    /\ brain = NewBrain(0)
    /\ process = NoProcess
    /\ \E lines \in SseBodies, crlf \in BOOLEAN :
         codec = [pc |-> "given", lines |-> lines, crlf |-> crlf,
                  text |-> Render(lines, crlf), result |-> [k |-> "none"]]

SseNext == CodecParse

SpecSse == SseInit /\ [][SseNext]_vars

----------------------------------------------------------------------------
(* Claims about the client, checked under SpecRpc *)

\* the latest attempt got a response that decoded to an object with an `error` member
ErrorAnswered ==
    /\ last_outcome.k = "response"
    /\ OutcomeClass(last_outcome) = "decoded"
    /\ IsDict(last_outcome.text.v)
    /\ HasKey(last_outcome.text.v, "error")

\* the retry loop of the call in progress makes no further attempt
LoopOver == cpc \in {"returned", "raised"} \/ (cpc = "attempt" /\ attempt >= max_retries)

C2_TransportFailures ==
    (cpc = "raised" /\ seen = {"transport"} /\ max_retries >= 1) =>
        /\ Len(posts) = max_retries
        /\ sleeps = [k \in 1..(max_retries - 1) |-> 2 ^ (k - 1)]
        /\ c_exc = AttemptResult(last_outcome).exc

C2_Witness ==
    /\ cpc = "raised"
    /\ seen = {"transport"}
    /\ max_retries = 3
    /\ Len(posts) = 3
    /\ sleeps = <<1, 2>>
    /\ c_exc = Exc("HTTPError", JInt(500))

\* C6: the id sent with the k-th call of a client is k: every envelope POSTed by
\* the k-th call carries id k, whether earlier calls returned or raised.
C6_RequestIds ==
    /\ request_id = ncalls
    /\ cpc # "idle" => payload.id = ncalls
    /\ \A i \in 1..Len(posts) : posts[i].id = ncalls

C6_Witness ==
    /\ ncalls = 3
    /\ Len(posts) = 2
    /\ posts[2].id = 3

----------------------------------------------------------------------------
(* Claims about the dispatcher, checked under SpecTool *)

\* the status operation holds a fetched get_branch response it has yet to examine
PollFetched == hpc = "poll" /\ cpc = "returned"

\* the response's status, trimmed and lower-cased, is one of `statuses`
StatusAmong(response, statuses) ==
    /\ IsDict(response)
    /\ StatusOf(response).k = "return"
    /\ StatusOf(response).value \in statuses

\* the step examines the held response and ends the operation there: no further
\* fetch, the response's identifier the tracker's latest, the response returned
\* whole as a success result
StopsAtResponse ==
    /\ hpc' = "done"
    /\ nremote' = nremote
    /\ tracker'.latest = ExtractBranchId(c_value)
    /\ h_result' = Success(c_value)

IsEnvelope(r) ==
    /\ IsDict(r)
    /\ \/ DOMAIN r.v = {"status", "data"} /\ r.v.status = JStr("success")
       \/ DOMAIN r.v = {"status", "error"} /\ r.v.status = JStr("error") /\ IsText(r.v.error)

\* C4: handle never raises to its caller: whatever the envelope's name and argument
\* text and whatever the remote client does (returns, answers with an error,
\* raises, lets the poll time out), handle ends by returning a success envelope
\* or an error envelope whose error is text.
C4_HandleNeverRaises ==
    /\ hpc = "done" => IsEnvelope(h_result)
    /\ hpc # "done" => (h_result = NoValue /\ (hpc # "idle" => cpc # "idle"))

C4_Witness ==
    /\ hpc = "done"
    /\ tool_call.function.name = JStr("read_artifact")
    /\ cpc = "raised"
    /\ c_exc.type = "ConnectionError"
    /\ h_result = Error(Fmt("Execution error: {}", << JStr("ConnectionError") >>))

\* the arguments of the status operation in progress, validated
PollArguments == ValidateStatus(ParseArguments(tool_call.function.arguments).value).value

\* the status operation is or was polling and every response it examined had a
\* status in `kinds` and an identifier as `ids` allows
PolledOnly(kinds, ids) ==
    /\ tool_call.function.name = JStr("check_status")
    /\ hpc \in {"poll", "done"}
    /\ nremote >= 1
    /\ \A c \in poll_seen : c.status \in kinds /\ c.id \in ids

\* fetches are bounded by the timeout (each sleep advances the clock by at least
\* the initial interval), and the operation ends after the deadline with the
\* timeout error naming the branch and the last status
EndsTimedOut ==
    /\ nremote >= 2 => (nremote - 2) * PollArguments.poll_interval < PollArguments.timeout
    /\ (hpc = "poll" /\ nremote >= 2) => clock >= poll.deadline - PollArguments.timeout
                                                   + (nremote - 1) * PollArguments.poll_interval
    /\ hpc = "done" =>
          /\ poll_seen # {}
          /\ clock >= poll.deadline
          /\ h_result = Error(Fmt("Timed out waiting for branch {} to finish. Last status={}.",
                                  << poll.branch_id,
                                     JStr(IF StatusOf(c_value).value = "" THEN "unknown"
                                          ELSE StatusOf(c_value).value) >>))

----------------------------------------------------------------------------
(* Claims about the conversation loop, checked under SpecLoop *)

\* the positions of the conversation that hold a turn of `role`
TurnsOf(role) == { q \in 1..Len(messages) : messages[q].role = role }

\* C7: the loop makes at most max_iterations (20 for orchestrate) completion calls,
\* one per iteration whatever the reply was (tool calls, neither tool call nor
\* final report); when the cap is reached without a final report the loop returns
\* None, having made exactly max_iterations calls, and makes no call after that.
C7_IterationCap ==
    lpc # "idle" =>
        /\ ncompletions <= max_iterations
        /\ variant = "orchestrate" => max_iterations = 20
        /\ lpc = "complete" => ncompletions = iteration - 1
        /\ lpc \in {"tools", "handling"} => ncompletions = iteration
        /\ lpc \in {"complete", "tools", "handling", "returned"} =>
              Cardinality(TurnsOf("assistant")) = ncompletions
        /\ (lpc = "returned" /\ loop_result = JNull) => ncompletions = max_iterations

C7_Witness ==
    /\ lpc = "returned"
    /\ loop_result = JNull
    /\ variant = "orchestrate"
    /\ ncompletions = 20
    /\ Len(handled) = 2
    /\ messages[Len(messages)] = [role |-> "assistant", content |-> [t |-> "empty"]]

\* the latest reply has no tool calls and its content is a JSON object whose type
\* is final_report
FinalReportReplied ==
    /\ ~Truthy(choice.tool_calls)
    /\ choice.content.t = "json"
    /\ IsDict(choice.content.v)
    /\ HasKey(choice.content.v, "type")
    /\ Item(choice.content.v, "type") = JStr("final_report")

\* C8: a reply without tool calls whose content is a JSON object with type
\* final_report ends the loop in its iteration: the loop returns that object as
\* it was parsed, the reply's assistant turn is the last turn of the conversation,
\* no completion call and no dispatcher call follows.
C8_FinalReportReturned ==
    FinalReportReplied =>
        /\ lpc = "returned"
        /\ loop_result = choice.content.v
        /\ ncompletions = iteration
        /\ messages[Len(messages)] = [role |-> "assistant", content |-> choice.content]
        /\ nhandles = Len(handled)
        /\ Cardinality(TurnsOf("tool")) = Len(handled)

C8_Witness ==
    /\ FinalReportReplied
    /\ choice.tool_calls = JList(<< >>)
    /\ lpc = "returned"
    /\ loop_result = JDict([type |-> JStr("final_report"), task |-> JStr("t"),
                            summary |-> JStr("s")])
    /\ iteration = 3
    /\ Len(handled) = 1

\* the number of tool turns among the first q turns
ToolIndex(q) == Cardinality({ j \in 1..q : messages[j].role = "tool" })

\* the assistant turn at p asks for tool calls
AsksForTools(p) == messages[p].role = "assistant" /\ "tool_calls" \in DOMAIN messages[p]

\* C9: for an assistant turn that asks for calls c1..ck the dispatcher is invoked
\* once per call, in order; its results become k tool turns directly after the
\* assistant turn, the i-th with tool_call_id = ci.id and content the JSON text of
\* the result for ci; the next assistant turn comes only after all k.
C9_ToolTurns ==
    /\ nhandles = Len(handled) + (IF lpc = "handling" THEN 1 ELSE 0)
    /\ Cardinality(TurnsOf("tool")) = Len(handled)
    /\ \A q \in TurnsOf("tool") : messages[q - 1].role = "tool" \/ AsksForTools(q - 1)
    /\ \A p \in 1..Len(messages) :
         AsksForTools(p) =>
            LET calls == messages[p].tool_calls
                k == Len(calls)
                appended == IF lpc \in {"tools", "handling"} /\ p = ncompletions + ToolIndex(p) + 2
                            THEN tc_index - 1 ELSE k
            IN
            /\ k >= 1
            /\ appended <= k
            /\ Len(messages) >= p + appended
            /\ appended < k => Len(messages) = p + appended
            /\ Len(messages) > p + appended => messages[p + k + 1].role = "assistant"
            /\ \A i \in 1..appended :
                 /\ handled[ToolIndex(p) + i].call = calls[i]
                 /\ messages[p + i] =
                       [role |-> "tool", tool_call_id |-> calls[i].id,
                        content |-> [t |-> "json", v |-> handled[ToolIndex(p) + i].result]]

C9_Witness ==
    /\ Len(messages) = 6
    /\ AsksForTools(3)
    /\ Len(messages[3].tool_calls) = 2
    /\ messages[4].tool_call_id = "call_1"
    /\ messages[4].content.v.v.status = JStr("success")
    /\ messages[5].tool_call_id = "call_2"
    /\ messages[5].content.v.v.status = JStr("error")
    /\ messages[6].role = "assistant"
    /\ nhandles = 2

\* C10: an iteration whose reply asks for a tool call never returns a final
\* report, even when the reply's content is a final_report object: after the
\* calls the loop goes on to the next iteration, and a return in that iteration
\* is the return of None at the cap.
C10_ToolCallsDeferReport ==
    Truthy(choice.tool_calls) =>
        /\ lpc \in {"tools", "handling", "complete", "returned", "raised"}
        /\ lpc = "complete" => iteration = ncompletions + 1
        /\ lpc = "returned" => (loop_result = JNull /\ ncompletions = max_iterations)

C10_Witness ==
    /\ Truthy(choice.tool_calls)
    /\ choice.content = [t |-> "json", v |-> JDict([type |-> JStr("final_report"),
                                                    task |-> JStr("t"), summary |-> JStr("s")])]
    /\ lpc = "complete"
    /\ iteration = 2
    /\ Len(handled) = 1

\* C11: orchestrate and chat_loop (with its default cap), started from the same
\* history and given the same completion outcomes and the same dispatcher results,
\* are at the same point after every step: same completion calls, same dispatcher
\* calls in the same order, same message history, same returned value.
C11_LoopsAgree ==
    variant = "orchestrate" =>
        /\ twin.lpc = lpc
        /\ twin.iteration = iteration
        /\ twin.ncompletions = ncompletions
        /\ twin.handled = handled
        /\ twin.messages = messages
        /\ twin.loop_result = loop_result

C11_Witness ==
    /\ variant = "orchestrate"
    /\ lpc = "returned"
    /\ twin.lpc = "returned"
    /\ twin.loop_result = FinalReport
    /\ Len(twin.handled) = 2
    /\ Len(twin.messages) = 6
    /\ "tool_calls" \in DOMAIN twin.messages[3]

\* C12: the message history is append-only: a loop starts from the seeded system
\* and user turns, and every step leaves the earlier history as a prefix of the
\* new one: no turn is removed, reordered or modified, and the first two turns
\* stay the seeded ones.
C12_AppendOnly ==
    [][/\ (lpc = "idle" /\ lpc' # "idle") => messages' = InitialMessages
       /\ lpc # "idle" =>
             /\ Len(messages') >= Len(messages)
             /\ SubSeq(messages', 1, Len(messages)) = messages
             /\ SubSeq(messages', 1, 2) = InitialMessages]_vars

C12_Witness ==
    /\ lpc = "complete"
    /\ iteration = 3
    /\ Len(messages) = 6
    /\ SubSeq(messages, 1, 2) = InitialMessages
    /\ messages[4].role = "tool"
    /\ messages[5].role = "tool"
    /\ messages[6] = [role |-> "assistant", content |-> [t |-> "empty"]]

\* the number of tool calls the turn at p asks for
AskedAt(p) == IF AsksForTools(p) THEN Len(messages[p].tool_calls) ELSE 0

\* the nearest assistant turn at or before position q, 0 when there is none
RECURSIVE AssistantBack(_)
AssistantBack(q) ==
    IF q = 0 THEN 0
    ELSE IF messages[q].role = "assistant" THEN q
    ELSE AssistantBack(q - 1)

\* the nearest assistant turn before position q
NearestAssistant(q) == AssistantBack(q - 1)

\* C39: every tool turn answers a tool call of the nearest assistant turn before
\* it: the i-th turn after an assistant turn carries the id of its i-th call.
\* Whenever a completion call is about to be made or the loop has returned,
\* every assistant turn that asked for k calls is followed by exactly k tool
\* turns, and then by an assistant turn or nothing; an error result is a tool
\* turn like any other.
C39_CallsAnswered ==
    [](\A q \in 1..Len(messages) :
         /\ messages[q].role = "tool" =>
               LET p == NearestAssistant(q) IN
               /\ p > 0
               /\ q - p <= AskedAt(p)
               /\ messages[q].tool_call_id = messages[p].tool_calls[q - p].id
         /\ messages[q].role = "assistant" =>
               LET k == AskedAt(q) IN
               (lpc \in {"complete", "returned"} \/ AssistantBack(Len(messages)) > q) =>
                  /\ Len(messages) >= q + k
                  /\ \A i \in 1..k : messages[q + i].role = "tool"
                  /\ Len(messages) > q + k => messages[q + k + 1].role = "assistant")

C39_Witness ==
    /\ lpc = "complete"
    /\ iteration = 2
    /\ Len(messages) = 5
    /\ AskedAt(3) = 2
    /\ messages[4].role = "tool"
    /\ messages[5].role = "tool"
    /\ messages[5].tool_call_id = messages[3].tool_calls[2].id
    /\ messages[5].content.v.v.status = JStr("error")

----------------------------------------------------------------------------
(* Claims about the tracker *)

\* the recorded identifiers that are non-empty strings, in order
Recordable == SelectSeq(recorded, LAMBDA x : IsStr(x) /\ x.v # "")

\* C13: on a tracker that starts empty, after any sequence of record calls start
\* is the first non-empty string identifier recorded and latest the last one
\* (both None while there is none); record(a) then record(b) with a # b leaves
\* start = a and latest = b.  Checked under SpecTracker.
C13_FirstAndLast ==
    IF Recordable = << >>
    THEN tracker = [start |-> JNull, latest |-> JNull]
    ELSE tracker = [start |-> Recordable[1], latest |-> Recordable[Len(Recordable)]]

C13_Witness ==
    /\ recorded = << JNull, JStr("a"), JInt(7), JStr("b") >>
    /\ tracker = [start |-> JStr("a"), latest |-> JStr("b")]

\* C29: a record call with an empty or non-string identifier changes neither
\* start nor latest; with a non-empty string it always sets latest to the
\* identifier, and sets start to it only when start is unset, keeping start
\* otherwise.  Checked under SpecTracker.
C29_RecordEffect ==
    [][recorded' # recorded =>
         LET identifier == recorded'[Len(recorded')] IN
         IF IsStr(identifier) /\ identifier.v # ""
         THEN /\ tracker'.latest = identifier
              /\ tracker'.start = IF tracker.start.t = "null" THEN identifier
                                  ELSE tracker.start
         ELSE tracker' = tracker]_vars

C29_Witness ==
    /\ recorded = << JStr("a"), JStr("b"), JStr("") >>
    /\ tracker = [start |-> JStr("a"), latest |-> JStr("b")]

\* C14: once the tracker's start identifier is non-empty (seeded at construction
\* or recorded), no step of a dispatcher operation (launch, status, read-artifact,
\* succeeding or failing) changes it.  Checked under SpecTool.
C14_StartIsKept ==
    [][Truthy(tracker.start) => tracker'.start = tracker.start]_vars

C14_Witness ==
    /\ hpc = "done"
    /\ tool_call.function.name = JStr("check_status")
    /\ nremote = 2
    /\ tracker = [start |-> JStr("b1"), latest |-> JStr("b2")]

----------------------------------------------------------------------------
(* Claims about the operations of the dispatcher, checked under SpecTool *)

\* the tool call in hand is for `name` and its argument text is a JSON object
CalledWithObject(name) ==
    /\ tool_call.function.name = JStr(name)
    /\ tool_call.function.arguments.t = "json"
    /\ IsDict(tool_call.function.arguments.v)

\* the number given for `key`, in ticks, or `default` when the key is absent
GivenTicks(arguments, key, default) ==
    IF HasKey(arguments, key) THEN NumTicks(Item(arguments, key)) ELSE default

\* the arguments name no branch, a branch that is no string, a timeout or an
\* interval that is a number <= 0, or a largest interval below the interval
BadStatusArguments(arguments) ==
    LET numeric(key) == ~HasKey(arguments, key) \/ IsNumber(Item(arguments, key)) IN
    \/ ~HasKey(arguments, "branch_id")
    \/ ~IsStr(Item(arguments, "branch_id"))
    \/ /\ HasKey(arguments, "timeout_seconds") /\ numeric("timeout_seconds")
       /\ GivenTicks(arguments, "timeout_seconds", 1800 * TicksPerSecond) <= 0
    \/ /\ HasKey(arguments, "poll_interval_seconds") /\ numeric("poll_interval_seconds")
       /\ GivenTicks(arguments, "poll_interval_seconds", 3 * TicksPerSecond) <= 0
    \/ /\ numeric("poll_interval_seconds") /\ numeric("max_poll_interval_seconds")
       /\ GivenTicks(arguments, "max_poll_interval_seconds", 30 * TicksPerSecond)
             < GivenTicks(arguments, "poll_interval_seconds", 3 * TicksPerSecond)

\* C15: the status operation rejects timeout_seconds <= 0, poll_interval_seconds
\* <= 0, max_poll_interval_seconds < poll_interval_seconds and a missing or
\* non-string branch_id with an error result before any get-status call: handle
\* is over, no remote call and no POST was made, the clock has not moved.
C15_RejectedBeforeAnyCall ==
    (CalledWithObject("check_status") /\ BadStatusArguments(tool_call.function.arguments.v)) =>
        /\ hpc = "done"
        /\ IsDict(h_result)
        /\ DOMAIN h_result.v = {"status", "error"}
        /\ h_result.v.status = JStr("error")
        /\ nremote = 0
        /\ ncalls = 0
        /\ cpc = "idle"
        /\ clock = 0

C15_Witness ==
    /\ CalledWithObject("check_status")
    /\ tool_call.function.arguments.v =
          JDict([branch_id |-> JStr("b1"), poll_interval_seconds |-> JInt(10),
                 max_poll_interval_seconds |-> JInt(5)])
    /\ hpc = "done"
    /\ h_result = Error(JStr("max_poll_interval_seconds must be a number >= poll_interval_seconds."))
    /\ ncalls = 0

\* the step is a sleep of the polling loop: the status operation goes on to its
\* next fetch
PollSleeps == hpc = "poll" /\ hpc' = "poll" /\ nremote' = nremote + 1

\* C16: the sleep intervals of the status operation start at
\* poll_interval_seconds; each sleep lasts the current interval and the next
\* interval is min(1.5 * current, max_poll_interval_seconds), so the sequence is
\* non-decreasing, never exceeds the maximum and stays at the maximum once it
\* is there (with 2 and 30: 2, 3, 4.5, ..., 22.78125, 30, 30, ...).
C16_SleepIntervals ==
    [][/\ (hpc = "idle" /\ hpc' = "poll") =>
             /\ poll'.sleep_interval =
                   GivenTicks(tool_call'.function.arguments.v, "poll_interval_seconds",
                              3 * TicksPerSecond)
             /\ poll'.max_interval =
                   GivenTicks(tool_call'.function.arguments.v, "max_poll_interval_seconds",
                              30 * TicksPerSecond)
             /\ poll'.sleep_interval <= poll'.max_interval
       /\ PollSleeps =>
             /\ clock' - clock = poll.sleep_interval
             /\ 2 * poll'.sleep_interval = Min(3 * poll.sleep_interval, 2 * poll.max_interval)
             /\ poll'.sleep_interval >= poll.sleep_interval
             /\ poll'.sleep_interval <= poll.max_interval
             /\ poll.sleep_interval = poll.max_interval
                   => poll'.sleep_interval = poll.max_interval
             /\ poll'.max_interval = poll.max_interval]_vars

C16_Witness ==
    /\ hpc = "poll"
    /\ PollArguments.poll_interval = 2 * TicksPerSecond
    /\ PollArguments.max_interval = 30 * TicksPerSecond
    /\ poll.attempt = 9
    /\ nremote = 9
    /\ poll.sleep_interval = 30 * TicksPerSecond
    /\ clock >= (64 + 30) * TicksPerSecond

\* the launch operation has ended on a response of parallel_explore, held in c_value
LaunchAnswered ==
    /\ hpc = "done"
    /\ tool_call.function.name = JStr("execute_agent")
    /\ nremote = 1
    /\ cpc = "returned"

\* the first non-empty string among the members `branch_id` and `id` of an object
NamedId(d) ==
    IF ~IsDict(d) THEN JNull
    ELSE IF HasKey(d, "branch_id") /\ IsStr(Item(d, "branch_id")) /\ Item(d, "branch_id").v # ""
         THEN Item(d, "branch_id")
    ELSE IF HasKey(d, "id") /\ IsStr(Item(d, "id")) /\ Item(d, "id").v # ""
         THEN Item(d, "id")
    ELSE JNull

\* the identifier an element of `branches` carries: its own, or the one of its
\* `branch` member
CarriedId(b) ==
    IF NamedId(b) # JNull THEN NamedId(b)
    ELSE IF IsDict(b) /\ HasKey(b, "branch") THEN NamedId(Item(b, "branch"))
    ELSE JNull

\* the response is an object with a non-empty list `branches`
HasBranches(response) ==
    /\ IsDict(response)
    /\ HasKey(response, "branches")
    /\ IsList(Item(response, "branches"))
    /\ Len(Item(response, "branches").v) > 0

\* ... whose first element carries an identifier
HasPrimaryBranch(response) ==
    HasBranches(response) /\ CarriedId(Item(response, "branches").v[1]) # JNull

PrimaryId(response) == CarriedId(Item(response, "branches").v[1])

\* the response has a member `error`, or a member `isError` that is true
SignalsError(response) ==
    /\ IsDict(response)
    /\ \/ HasKey(response, "error")
       \/ HasKey(response, "isError") /\ Item(response, "isError") = JBool(TRUE)

\* the tracker the dispatcher was constructed with
InitialTracker == NewTracker(IF default_project_name = JNull THEN JNull ELSE JStr("b0"))

\* the launch operation succeeded with the response in hand: the result holds the
\* primary identifier with the raw response, and the tracker's latest is it
LaunchSucceeded ==
    /\ h_result = JDict([status |-> JStr("success"),
                         data |-> JDict([parallel_explore |-> c_value,
                                         branch_id |-> PrimaryId(c_value)])])
    /\ tracker.latest = PrimaryId(c_value)

\* C17 as stated: a launch whose response has a non-empty `branches` list with an
\* identifier in its first element returns a success result holding that
\* identifier and the raw response, and the tracker's latest is that identifier.
C17_BranchesSucceed ==
    (LaunchAnswered /\ HasPrimaryBranch(c_value)) => LaunchSucceeded

\* C17 amended: that holds when the response has no `error` member and no true
\* `isError` flag.  A response with either is an error result even when its
\* `branches` list is in order, and the tracker is left as it was.
C17_BranchesSucceedUnlessError ==
    (LaunchAnswered /\ HasPrimaryBranch(c_value)) =>
        IF SignalsError(c_value)
        THEN /\ IsDict(h_result)
             /\ DOMAIN h_result.v = {"status", "error"}
             /\ tracker = InitialTracker
        ELSE LaunchSucceeded

C17_Witness ==
    /\ LaunchAnswered
    /\ HasPrimaryBranch(c_value)
    /\ ~SignalsError(c_value)
    /\ Len(Item(c_value, "branches").v) = 2
    /\ PrimaryId(c_value) = JStr("b2")
    /\ h_result.v.data.v.branch_id = JStr("b2")
    /\ tracker = [start |-> JStr("b0"), latest |-> JStr("b2")]

\* the result is the error result with `text`
IsErrorResult(r, text) == r = JDict([status |-> JStr("error"), error |-> text])

\* C18 as stated: a launch response with an `error` member or a true `isError`
\* flag gives an error result whose text is the error member printed, and the
\* tracker is unchanged.
C18_ErrorMemberText ==
    (LaunchAnswered /\ SignalsError(c_value)) =>
        /\ IsErrorResult(h_result, PyStr(Get(c_value, "error")))
        /\ tracker = InitialTracker

\* C18 amended: the text of the error result is the `error` member printed when
\* that member is truthy ({"error": "quota exceeded"} gives exactly
\* "quota exceeded"); when it is absent, null or otherwise falsy the text is the
\* whole response printed.  The tracker is unchanged either way.
C18_ErrorTextOrResponse ==
    (LaunchAnswered /\ SignalsError(c_value)) =>
        /\ IsErrorResult(h_result,
                         IF HasKey(c_value, "error") /\ Truthy(Item(c_value, "error"))
                         THEN PyStr(Item(c_value, "error"))
                         ELSE [t |-> "repr", v |-> c_value])
        /\ (HasKey(c_value, "error") /\ Item(c_value, "error") = JStr("quota exceeded"))
              => h_result = JDict([status |-> JStr("error"), error |-> JStr("quota exceeded")])
        /\ tracker = InitialTracker

C18_Witness ==
    /\ LaunchAnswered
    /\ SignalsError(c_value)
    /\ ~HasKey(c_value, "error")
    /\ HasKey(c_value, "content")
    /\ h_result = JDict([status |-> JStr("error"), error |-> [t |-> "repr", v |-> c_value]])
    /\ tracker = InitialTracker

\* the step examines the held response and ends the status operation with
\* `result`: no sleep and no further fetch
EndsPollingWith(result) ==
    /\ hpc' = "done"
    /\ nremote' = nremote
    /\ ncalls' = ncalls
    /\ clock' = clock
    /\ h_result' = result

\* C20 as stated: a get-status response whose status is failed ends polling and
\* is returned as a success result; it is never made an error result and no
\* further poll follows it.
C20_FailedIsSuccess ==
    [][(PollFetched /\ StatusAmong(c_value, {"failed"}))
           => EndsPollingWith(JDict([status |-> JStr("success"), data |-> c_value]))]_vars

\* C20 amended: a response whose status is failed always ends polling, before or
\* after the deadline; it is returned as a success result when it carries a
\* branch identifier, and when it carries none the result is the error
\* "Branch status response missing branch identifier."
C20_FailedEndsPolling ==
    [][(PollFetched /\ StatusAmong(c_value, {"failed"}))
           => EndsPollingWith(
                 IF CarriedId(c_value) # JNull
                 THEN JDict([status |-> JStr("success"), data |-> c_value])
                 ELSE JDict([status |-> JStr("error"),
                             error |-> JStr("Branch status response missing branch identifier.")]))]_vars

C20_Witness ==
    /\ hpc = "done"
    /\ tool_call.function.name = JStr("check_status")
    /\ cpc = "returned"
    /\ StatusAmong(c_value, {"failed"})
    /\ CarriedId(c_value) = JStr("b2")
    /\ nremote = 2
    /\ clock >= poll.deadline
    /\ h_result = JDict([status |-> JStr("success"), data |-> c_value])
    /\ tracker.latest = JStr("b2")

\* C26: when the launch response signals no error and no identifier can be
\* extracted from the first element of `branches` (the response is no object,
\* the list is missing or empty, or its first element has no non-empty string
\* under branch_id or id, directly or under `branch`), the launch operation
\* returns the error result "Missing branch id in parallel_explore response.",
\* never a success result, and the tracker is as it was.
C26_NoIdentifierIsAnError ==
    (LaunchAnswered /\ ~SignalsError(c_value) /\ ~HasPrimaryBranch(c_value)) =>
        /\ h_result = JDict([status |-> JStr("error"),
                             error |-> JStr("Missing branch id in parallel_explore response.")])
        /\ tracker = InitialTracker

C26_Witness ==
    /\ LaunchAnswered
    /\ HasBranches(c_value)
    /\ ~SignalsError(c_value)
    /\ HasKey(Item(c_value, "branches").v[1], "branch_id")
    /\ ~HasPrimaryBranch(c_value)
    /\ h_result = JDict([status |-> JStr("error"),
                         error |-> JStr("Missing branch id in parallel_explore response.")])
    /\ tracker = InitialTracker

\* the arguments of a launch are in order: agent, prompt and parent_branch_id are
\* non-empty strings, a project name is given or configured, and num_branches,
\* when given, is an integer from 1 to the configured maximum
GoodExecuteArguments(arguments) ==
    LET named(key) == /\ HasKey(arguments, key)
                      /\ IsStr(Item(arguments, key))
                      /\ Item(arguments, key).v # "" IN
    /\ named("agent")
    /\ named("prompt")
    /\ named("parent_branch_id")
    /\ \/ named("project_name")
       \/ /\ ~HasKey(arguments, "project_name")
          /\ IsStr(default_project_name)
          /\ default_project_name.v # ""
    /\ \/ ~HasKey(arguments, "num_branches")
       \/ /\ Item(arguments, "num_branches").t = "int"
          /\ Item(arguments, "num_branches").v >= 1
          /\ Item(arguments, "num_branches").v <= max_branches

\* C27: the launch operation calls the remote service only when its arguments
\* are in order (the default of num_branches is 1, the default maximum 4);
\* otherwise handle has ended with an error result and no remote call and no
\* POST was made.  With arguments in order exactly one parallel_explore call is
\* made, with num_branches as given or 1.
C27_LaunchValidatedFirst ==
    CalledWithObject("execute_agent") =>
        IF GoodExecuteArguments(tool_call.function.arguments.v)
        THEN /\ nremote = 1
             /\ ncalls = 1
             /\ payload.params.name = "parallel_explore"
             /\ payload.params.arguments.v["num_branches"] =
                   IF HasKey(tool_call.function.arguments.v, "num_branches")
                   THEN Item(tool_call.function.arguments.v, "num_branches")
                   ELSE JInt(1)
             /\ max_branches = 4
        ELSE /\ hpc = "done"
             /\ IsDict(h_result)
             /\ DOMAIN h_result.v = {"status", "error"}
             /\ nremote = 0
             /\ ncalls = 0
             /\ posts = << >>
             /\ cpc = "idle"

C27_Witness ==
    /\ CalledWithObject("execute_agent")
    /\ HasKey(tool_call.function.arguments.v, "num_branches")
    /\ Item(tool_call.function.arguments.v, "num_branches") = JInt(5)
    /\ hpc = "done"
    /\ h_result = JDict([status |-> JStr("error"),
                         error |-> [t |-> "fmt",
                                    fmt |-> "num_branches must be an integer between 1 and {}.",
                                    args |-> << JInt(4) >>]])
    /\ ncalls = 0

\* the remote tool behind each of the three operations
RemoteOf(name) ==
    CASE name = JStr("execute_agent") -> "parallel_explore"
      [] name = JStr("check_status") -> "get_branch"
      [] name = JStr("read_artifact") -> "branch_read_file"
      [] OTHER -> ""

\* the argument text of the tool call in hand is a JSON object
ObjectText ==
    /\ tool_call.function.arguments.t = "json"
    /\ IsDict(tool_call.function.arguments.v)

\* C28: handle routes a call by its name to exactly one of the three operations:
\* every request sent while it runs is for the remote tool of the operation
\* named.  A call with an unrecognized (or missing) name, or with argument text
\* that is not a JSON object, has ended with an error result, without a remote
\* call and with the lineage tracker as it was; text that is not JSON is
\* reported as invalid JSON arguments.
C28_RoutedByName ==
    hpc # "idle" =>
        LET name == tool_call.function.name IN
        /\ (RemoteOf(name) = "" \/ ~ObjectText) =>
               /\ hpc = "done"
               /\ IsDict(h_result)
               /\ DOMAIN h_result.v = {"status", "error"}
               /\ h_result.v["status"] = JStr("error")
               /\ nremote = 0
               /\ ncalls = 0
               /\ posts = << >>
               /\ tracker = InitialTracker
        /\ (RemoteOf(name) # "" /\ tool_call.function.arguments.t = "raw") =>
               /\ IsDict(h_result)
               /\ h_result.v["error"].t = "fmt"
               /\ h_result.v["error"].fmt = "Invalid JSON arguments: {}"
        /\ ncalls > 0 =>
               /\ RemoteOf(name) # ""
               /\ payload.method = "tools/call"
               /\ payload.params.name = RemoteOf(name)
               /\ \A i \in 1..Len(posts) : posts[i].params.name = RemoteOf(name)

C28_Witness ==
    /\ hpc = "done"
    /\ tool_call.function.name = JStr("check_status")
    /\ tool_call.function.arguments.t = "json"
    /\ ~IsDict(tool_call.function.arguments.v)
    /\ IsDict(h_result)
    /\ DOMAIN h_result.v = {"status", "error"}
    /\ ncalls = 0

\* spellings of the terminal literals in other letter case or with blanks around
Spellings == { " Succeed ", "Succeed", "FAILED" }

\* the terminal literal a spelling stands for
LiteralOf(spelling) == IF spelling = "FAILED" THEN "failed" ELSE "succeed"

\* the held response is an object whose status is such a spelling
SpelledTerminal ==
    /\ PollFetched
    /\ IsDict(c_value)
    /\ HasKey(c_value, "status")
    /\ IsStr(Item(c_value, "status"))
    /\ Item(c_value, "status").v \in Spellings

\* the held response with its status replaced by the lower-case literal
Respelled ==
    JDict([key \in DOMAIN c_value.v |->
             IF key = "status" THEN JStr(LiteralOf(c_value.v[key].v)) ELSE c_value.v[key]])

\* C23: a response whose status is a terminal literal in another letter case or
\* with blanks around it ends polling exactly as the response with the
\* lower-case literal would: no sleep and no further fetch, the same tracker
\* afterwards, and the same result but for the response returned in it, which is
\* the one received.
C23_SpellingIgnored ==
    [][SpelledTerminal =>
          LET literal == PollStep(Respelled, tracker, clock, poll.deadline, poll.branch_id) IN
          /\ literal.next \in {"return", "raise"}
          /\ hpc' = "done"
          /\ nremote' = nremote
          /\ clock' = clock
          /\ tracker' = literal.tr
          /\ h_result' = IF literal.next = "return"
                         THEN JDict([status |-> JStr("success"), data |-> c_value])
                         ELSE HandleOutcome(literal.out)]_vars

C23_Witness ==
    /\ hpc = "done"
    /\ tool_call.function.name = JStr("check_status")
    /\ cpc = "returned"
    /\ IsDict(c_value)
    /\ HasKey(c_value, "status")
    /\ Item(c_value, "status") = JStr("FAILED")
    /\ nremote = 2
    /\ h_result = JDict([status |-> JStr("success"), data |-> c_value])
    /\ tracker.latest = JStr("b2")

\* the held response is an object that carries an identifier and whose status
\* is absent, null, empty or a string that is no terminal literal once trimmed
\* and lower-cased
NonTerminalWithId ==
    /\ PollFetched
    /\ IsDict(c_value)
    /\ CarriedId(c_value) # JNull
    /\ \/ ~HasKey(c_value, "status")
       \/ Item(c_value, "status").t = "null"
       \/ /\ IsStr(Item(c_value, "status"))
          /\ Lower(Strip(Item(c_value, "status").v)) \notin {"succeed", "failed"}

\* the value is a success result
IsSuccess(r) == IsDict(r) /\ HasKey(r, "data")

\* C24: a response that carries an identifier and whose normalized status is no
\* terminal literal (a missing or empty status included) never ends the status
\* operation with a success result: before the deadline the operation goes on
\* to another fetch, at or after the deadline it ends with the timeout error.
C24_NonTerminalKeepsPolling ==
    [][NonTerminalWithId =>
          /\ ~IsSuccess(h_result')
          /\ IF clock < poll.deadline
             THEN /\ hpc' = "poll"
                  /\ nremote' = nremote + 1
                  /\ cpc' = "attempt"
             ELSE /\ hpc' = "done"
                  /\ nremote' = nremote
                  /\ IsDict(h_result')
                  /\ DOMAIN h_result'.v = {"status", "error"}
                  /\ h_result'.v.error.t = "fmt"]_vars

C24_Witness ==
    /\ hpc = "poll"
    /\ cpc = "returned"
    /\ nremote = 3
    /\ clock > 0
    /\ poll_seen = {[status |-> "running", id |-> TRUE]}
    /\ IsDict(c_value)
    /\ ~HasKey(c_value, "status")
    /\ CarriedId(c_value) = JStr("b1")

\* the held response is an object whose status is absent, null, empty or a
\* string that is no terminal literal once trimmed and lower-cased
NonTerminalHeld ==
    /\ PollFetched
    /\ IsDict(c_value)
    /\ \/ ~HasKey(c_value, "status")
       \/ Item(c_value, "status").t = "null"
       \/ /\ IsStr(Item(c_value, "status"))
          /\ Lower(Strip(Item(c_value, "status").v)) \notin {"succeed", "failed"}

TerminalHeld ==
    /\ PollFetched
    /\ IsDict(c_value)
    /\ HasKey(c_value, "status")
    /\ IsStr(Item(c_value, "status"))
    /\ Lower(Strip(Item(c_value, "status").v)) \in {"succeed", "failed"}

\* the arguments of a status call are in order
GoodStatusArguments(arguments) ==
    LET positive(key) == \/ ~HasKey(arguments, key)
                         \/ /\ IsNumber(Item(arguments, key))
                            /\ NumTicks(Item(arguments, key)) > 0 IN
    /\ HasKey(arguments, "branch_id")
    /\ IsStr(Item(arguments, "branch_id"))
    /\ Item(arguments, "branch_id").v # ""
    /\ positive("timeout_seconds")
    /\ positive("poll_interval_seconds")
    /\ ~HasKey(arguments, "max_poll_interval_seconds")
          \/ IsNumber(Item(arguments, "max_poll_interval_seconds"))
    /\ GivenTicks(arguments, "max_poll_interval_seconds", 30 * TicksPerSecond)
          >= GivenTicks(arguments, "poll_interval_seconds", 3 * TicksPerSecond)

\* the result is the timeout error
IsTimeoutError(r) ==
    /\ IsDict(r)
    /\ DOMAIN r.v = {"status", "error"}
    /\ r.v.error.t = "fmt"
    /\ r.v.error.fmt = "Timed out waiting for branch {} to finish. Last status={}."

\* C34 as stated: a terminal status observed on a fetch that completes at or
\* after the deadline is still returned as a success result.
C34_TerminalAfterDeadlineSucceeds ==
    [][(TerminalHeld /\ clock >= poll.deadline)
           => EndsPollingWith(JDict([status |-> JStr("success"), data |-> c_value]))]_vars

\* C34 amended: the terminal test comes before the deadline test.  A status call
\* with arguments in order always makes a first get-status call.  A terminal
\* status observed at or after the deadline ends the operation as it does
\* before it, never with the timeout error: with a success result when the
\* response carries a branch identifier, with the error "Branch status response
\* missing branch identifier." when it carries none.  The timeout error is
\* produced only on a non-terminal response examined at or after the deadline.
C34_TerminalTestFirst ==
    [][/\ (TerminalHeld /\ clock >= poll.deadline) =>
             EndsPollingWith(
                IF CarriedId(c_value) # JNull
                THEN JDict([status |-> JStr("success"), data |-> c_value])
                ELSE JDict([status |-> JStr("error"),
                            error |-> JStr("Branch status response missing branch identifier.")]))
       /\ (hpc = "poll" /\ IsTimeoutError(h_result')) =>
             (NonTerminalHeld /\ clock >= poll.deadline)
       /\ (/\ hpc = "idle"
           /\ hpc' # "idle"
           /\ tool_call'.function.name = JStr("check_status")
           /\ tool_call'.function.arguments.t = "json"
           /\ IsDict(tool_call'.function.arguments.v)
           /\ GoodStatusArguments(tool_call'.function.arguments.v)) =>
             /\ hpc' = "poll"
             /\ nremote' = 1
             /\ ncalls' = ncalls + 1
             /\ payload'.params.name = "get_branch"]_vars

C34_Witness ==
    /\ hpc = "done"
    /\ tool_call.function.name = JStr("check_status")
    /\ nremote = 1
    /\ clock >= poll.deadline
    /\ poll.attempt = 1
    /\ IsSuccess(h_result)
    /\ h_result.v.data = c_value

\* C35: the status operation returns a success result only for a response that
\* carries a branch identifier.  A get-status response without one, terminal or
\* not, before or after the deadline, ends the operation at once with an error
\* result: no sleep, no further fetch, and the tracker stays as it was.
C35_SuccessCarriesIdentifier ==
    [][/\ (PollFetched /\ CarriedId(c_value) = JNull) =>
             /\ hpc' = "done"
             /\ IsDict(h_result')
             /\ DOMAIN h_result'.v = {"status", "error"}
             /\ h_result'.v.status = JStr("error")
             /\ nremote' = nremote
             /\ ncalls' = ncalls
             /\ clock' = clock
             /\ tracker' = tracker
       /\ (hpc = "poll" /\ IsSuccess(h_result')) =>
             /\ CarriedId(c_value) # JNull
             /\ h_result'.v.data = c_value]_vars

C35_Witness ==
    /\ hpc = "done"
    /\ tool_call.function.name = JStr("check_status")
    /\ nremote = 2
    /\ clock < poll.deadline
    /\ cpc = "returned"
    /\ CarriedId(c_value) = JNull
    /\ h_result = JDict([status |-> JStr("error"),
                         error |-> JStr("Branch status response missing branch identifier.")])
    /\ tracker.latest = JStr("b1")

\* a get-status call of the polling loop was answered with a JSON-RPC error
PollErrorAnswered == hpc = "poll" /\ ErrorAnswered

C37_TrackerFrame ==
    [][/\ tracker' # tracker =>
             \/ /\ hpc = "launch"
                /\ hpc' = "done"
                /\ IsSuccess(h_result')
                /\ tracker'.latest = PrimaryId(c_value)
             \/ /\ PollFetched
                /\ CarriedId(c_value) # JNull
                /\ tracker'.latest = CarriedId(c_value)
       /\ (hpc' = "done" /\ tool_call'.function.name = JStr("read_artifact")) =>
             tracker' = InitialTracker
       /\ (hpc' = "done" /\ nremote' = 0) => tracker' = InitialTracker
       /\ (hpc' = "done" /\ tool_call'.function.name = JStr("execute_agent")
             /\ ~IsSuccess(h_result')) => tracker' = InitialTracker]_vars

C37_Witness ==
    /\ hpc = "done"
    /\ tool_call.function.name = JStr("read_artifact")
    /\ nremote = 1
    /\ cpc = "returned"
    /\ IsSuccess(h_result)
    /\ tracker = [start |-> JStr("b0"), latest |-> JStr("b0")]

----------------------------------------------------------------------------
(* A claim about the client's reading of a body, checked under SpecRpc *)

\* the latest attempt got a response that decoded to an object with both an
\* `error` member and a `result` member
BothAnswered == ErrorAnswered /\ HasKey(last_outcome.text.v, "result")

----------------------------------------------------------------------------
(* A claim about the value of a call, checked under SpecRpc *)

\* the body decoded from the response the call returned on
ReturnedBody == last_outcome.text.v

\* the body is an object with a `result` member
HasResult(body) == IsDict(body) /\ HasKey(body, "result")

\* the body is an object whose `result` is an object with `structuredContent`
HasStructuredContent(body) ==
    /\ HasResult(body)
    /\ IsDict(Item(body, "result"))
    /\ HasKey(Item(body, "result"), "structuredContent")

\* C30: a call that has returned did so on a decoded body, and its value is the
\* structuredContent member of result when the body is an object whose result is
\* an object containing it; otherwise the result member when the body is an
\* object with one; otherwise the decoded body itself.
C30_ReturnedValue ==
    cpc = "returned" =>
        /\ last_outcome.k = "response"
        /\ last_outcome.text.t \in {"json", "sse"}
        /\ c_value =
              IF HasStructuredContent(ReturnedBody)
              THEN Item(Item(ReturnedBody, "result"), "structuredContent")
              ELSE IF HasResult(ReturnedBody) THEN Item(ReturnedBody, "result")
              ELSE ReturnedBody

C30_Witness ==
    /\ cpc = "returned"
    /\ last_outcome.k = "response"
    /\ last_outcome.text.t = "sse"
    /\ HasStructuredContent(ReturnedBody)
    /\ IsDict(c_value)
    /\ ~HasKey(c_value, "structuredContent")
    /\ ~HasKey(c_value, "result")

----------------------------------------------------------------------------
(* Claims about failed attempts and request ids, checked under SpecRpc *)

\* the latest response had a good status and a body that gives no JSON value: a
\* plain body that is no JSON, or an event stream without an object or array
NothingDecoded ==
    /\ last_outcome.k = "response"
    /\ last_outcome.status < 400
    /\ \/ last_outcome.text.t = "raw"
       \/ /\ last_outcome.ct = "text/event-stream"
          /\ last_outcome.text.t = "sse"
          /\ ~IsDict(last_outcome.text.v)
          /\ ~IsList(last_outcome.text.v)

\* C32: a response body from which no JSON value is decoded fails the attempt
\* like a transport failure.  The decode error becomes the last exception; when
\* attempts are left the client sleeps 2^attempt seconds and posts again; on
\* the last attempt there is no sleep and the decode error is raised to the
\* caller.  A call all of whose responses are such makes max_retries POSTs.
C32_DecodeFailureRetried ==
    /\ NothingDecoded =>
          /\ last_exception.type = "ValueError"
          /\ c_value = NoValue
          /\ IF Len(posts) < max_retries
             THEN /\ cpc = "attempt"
                  /\ attempt = Len(posts)
                  /\ Len(sleeps) = Len(posts)
                  /\ sleeps[Len(sleeps)] = 2 ^ (Len(posts) - 1)
             ELSE /\ cpc \in {"attempt", "raised"}
                  /\ Len(sleeps) = Len(posts) - 1
                  /\ cpc = "raised" => c_exc = last_exception
    /\ (cpc = "raised" /\ seen = {"undecodable"}) =>
          /\ NothingDecoded
          /\ Len(posts) = max_retries
          /\ sleeps = [k \in 1..(max_retries - 1) |-> 2 ^ (k - 1)]

C32_Witness ==
    /\ NothingDecoded
    /\ last_outcome.ct = "text/event-stream"
    /\ cpc = "raised"
    /\ seen = {"undecodable"}
    /\ max_retries = 3
    /\ sleeps = <<1, 2>>
    /\ c_exc.type = "ValueError"

\* C33: the request id counter is incremented exactly once per call, when the
\* call begins and before its first attempt, whether the call before it returned
\* or raised; no attempt or retry changes it, and every envelope POSTed by the
\* call carries the id the call began with.
C33_OneIdPerCall ==
    [][/\ request_id' = IF ncalls' # ncalls THEN request_id + 1 ELSE request_id
       /\ ncalls' # ncalls => (posts' = << >> /\ payload'.id = request_id')
       /\ ncalls' = ncalls => payload'.id = payload.id
       /\ \A i \in 1..Len(posts') : posts'[i].id = request_id']_vars

C33_Witness ==
    /\ cpc = "raised"
    /\ request_id = 2
    /\ ncalls = 2
    /\ Len(posts) = 2
    /\ posts[1].id = 2
    /\ posts[2].id = 2

----------------------------------------------------------------------------
(* A claim about the completion wrapper, checked under SpecBrain *)

\* the backoff sleeps the client's policy prescribes after n failed attempts of
\* which the last allowed one is followed by none
BackoffSleeps(n, allowed) == [k \in 1..Min(n, allowed - 1) |-> WaitTime(k - 1)]

\* C22: complete follows the retry policy of the RPC client: it makes at most
\* max_retries create calls, every call before the latest one failed, a response
\* is returned at once with no further call, a sleep of 2^k seconds follows
\* failed attempt k (from 0) except the last allowed one, and when all
\* max_retries attempts failed the exception of the last one is raised.
C22_CompletionRetries ==
    LET n == Len(brain.creates)
        failed(i) == brain.creates[i].k = "raise"
        nfailed == IF n >= 1 /\ ~failed(n) THEN n - 1 ELSE n
    IN
    /\ n <= brain.max_retries
    /\ \A i \in 1..(n - 1) : failed(i)
    /\ brain.sleeps = BackoffSleeps(nfailed, brain.max_retries)
    /\ brain.bpc = "returned" <=> (n >= 1 /\ ~failed(n))
    /\ brain.bpc = "returned" => brain.value = brain.creates[n].value
    /\ brain.bpc = "raised" =>
          /\ n = brain.max_retries
          /\ n >= 1 => brain.exc = brain.creates[n].exc

C22_Witness ==
    /\ brain.bpc = "raised"
    /\ brain.max_retries = 3
    /\ Len(brain.creates) = 3
    /\ brain.sleeps = << 1, 2 >>
    /\ brain.creates[2].exc.type = "APIError"
    /\ brain.exc.type = "RateLimitError"
    /\ clock = 3 * TicksPerSecond

----------------------------------------------------------------------------
(* A claim about the process, checked under SpecMain *)

\* the JSON documents printed on standard output, in order
Documents == SelectSeq(process.stdout, LAMBDA x : x.k = "json")

\* the printed object holds the tracker's identifier under `key` exactly when the
\* tracker holds one
HoldsId(printed, key, id) ==
    IF IsStr(id) /\ id.v # ""
    THEN HasKey(printed, key) /\ printed.v[key] = id
    ELSE ~HasKey(printed, key)

\* C21: when the loop has returned a final report the process prints one JSON
\* object, last on standard output, holding the report's fields, the task when
\* the report names none, and start_branch_id and latest_branch_id whenever the
\* tracker holds them, and exits with status 0; when the loop has returned no
\* report the process prints no JSON object and exits with a non-zero status.
C21_ReportAndExitStatus ==
    (process.ppc = "exited" /\ lpc = "returned") =>
        IF loop_result # JNull
        THEN /\ process.status = 0
             /\ Len(Documents) = 1
             /\ process.stdout[Len(process.stdout)] = Documents[1]
             /\ LET printed == Documents[1].v IN
                /\ IsDict(printed)
                /\ \A key \in DOMAIN loop_result.v : printed.v[key] = loop_result.v[key]
                /\ DOMAIN printed.v \subseteq
                      DOMAIN loop_result.v
                      \cup {"task", "start_branch_id", "latest_branch_id"}
                /\ printed.v["task"] \in {Get(loop_result, "task"), process.task}
                /\ HoldsId(printed, "start_branch_id", tracker.start)
                /\ HoldsId(printed, "latest_branch_id", tracker.latest)
        ELSE /\ process.status > 0
             /\ Documents = << >>

C21_Witness ==
    /\ process.ppc = "exited"
    /\ variant = "chat_loop"
    /\ lpc = "returned"
    /\ Truthy(loop_result)
    /\ ~HasKey(loop_result, "task")
    /\ process.parent_branch_id = JStr("")
    /\ process.status = 0
    /\ tracker = [start |-> JStr("b1"), latest |-> JStr("b1")]
    /\ Len(process.stdout) > 3
    /\ DOMAIN Documents[1].v.v = {"type", "summary", "task", "start_branch_id", "latest_branch_id"}
    /\ Documents[1].v.v["task"] = JStr("t")
    /\ Documents[1].v.v["latest_branch_id"] = JStr("b1")

----------------------------------------------------------------------------
(* A claim about the codec, checked under SpecSse *)

\* a line of the stream given is a data line; what it holds after the colon
IsDataLine(line) == Len(line) >= 2 /\ line[1] = "data" /\ line[2] = ":"
DataHeld(line) ==
    IF Len(line) >= 3 /\ line[3] = "SP" THEN SubSeq(line, 4, Len(line))
    ELSE SubSeq(line, 3, Len(line))

RECURSIVE StreamEvents(_, _)
\* the events of the lines given, each as the data its lines hold, in order:
\* a blank line ends an event, lines other than data lines add nothing
StreamEvents(lines, held) ==
    IF lines = << >> THEN <<held>>
    ELSE IF Head(lines) = << >> THEN <<held>> \o StreamEvents(Tail(lines), << >>)
    ELSE IF IsDataLine(Head(lines))
         THEN StreamEvents(Tail(lines), Append(held, DataHeld(Head(lines))))
    ELSE StreamEvents(Tail(lines), held)

GivenEvents == StreamEvents(codec.lines, << >>)

RECURSIVE Accumulated(_)
\* the data of an event, its lines joined with newlines in order
Accumulated(held) ==
    IF held = << >> THEN << >>
    ELSE IF Len(held) = 1 THEN held[1]
    ELSE held[1] \o <<"LF">> \o Accumulated(Tail(held))

\* the text decodes as a JSON object or array
DecodesStructured(s) ==
    /\ s # << >>
    /\ Loads(s).k = "return"
    /\ Loads(s).value.t \in {"dict", "list"}

\* the event's accumulated data decodes
AccumulatedDecodes(held) == DecodesStructured(Accumulated(held))

\* the event has a data line that decodes on its own, or its accumulated data decodes
EventYields(held) ==
    \/ \E i \in 1..Len(held) : DecodesStructured(held[i])
    \/ AccumulatedDecodes(held)

\* what such an event yields: its first data line that decodes on its own, or,
\* when it has none, its accumulated data
YieldOf(held) ==
    IF \E i \in 1..Len(held) : DecodesStructured(held[i])
    THEN LET i == CHOOSE k \in 1..Len(held) :
                     /\ DecodesStructured(held[k])
                     /\ \A j \in 1..(k - 1) : ~DecodesStructured(held[j]) IN
         Loads(held[i]).value
    ELSE Loads(Accumulated(held)).value

\* the first of the events given that satisfies P
FirstEvent(P(_)) ==
    GivenEvents[CHOOSE k \in 1..Len(GivenEvents) :
                   /\ P(GivenEvents[k])
                   /\ \A j \in 1..(k - 1) : ~P(GivenEvents[j])]

\* the lines given without comments, other fields and words, ended by a blank line
DataLinesOnly ==
    SelectSeq(codec.lines, LAMBDA line : line = << >> \/ IsDataLine(line)) \o << << >>, << >> >>

----------------------------------------------------------------------------
(* Claims about the tracker of a process, checked under SpecMain *)

\* an identifier of the tracker is unset: None, or the empty string of an empty
\* command-line argument
Unset(identifier) ==
    \/ identifier.t = "null"
    \/ IsStr(identifier) /\ identifier.v = ""

\* C38: in every state of the tracker start is unset exactly when latest is
\* unset: at construction both are the seed, and the first identifier recorded
\* on an unset tracker becomes both.
C38_StartAndLatestTogether ==
    Unset(tracker.start) <=> Unset(tracker.latest)

C38_Witness ==
    /\ process.ppc = "ready"
    /\ process.parent_branch_id = JStr("")
    /\ hpc = "done"
    /\ tracker = [start |-> JStr("b1"), latest |-> JStr("b1")]

\* the identifiers a response of the remote service names: its own, or those of
\* the work units it lists
OwnIds(response) ==
    IF ~IsDict(response) THEN {}
    ELSE { response.v[key] : key \in DOMAIN response.v \cap {"id", "branch_id"} }

IdsIn(response) ==
    OwnIds(response)
    \cup (IF IsDict(response) /\ HasKey(response, "branches")
             /\ IsList(response.v["branches"])
          THEN UNION { OwnIds(response.v["branches"].v[i]) :
                         i \in 1..Len(response.v["branches"].v) }
          ELSE {})

\* the object the process printed when it exited with status 0
Printed == Documents[1].v

\* C40 as stated: the start_branch_id printed with the final report always equals
\* the parent branch id given on the command line.  It fails for an empty parent
\* branch id, which the command line accepts.
C40_PrintedStartIsParent ==
    (process.ppc = "exited" /\ process.status = 0) =>
        /\ HasKey(Printed, "start_branch_id")
        /\ Printed.v["start_branch_id"] = process.parent_branch_id

\* C40, amended: when the parent branch id given on the command line is not
\* empty, the tracker's start is that id from setup on and the start_branch_id
\* printed with the final report equals it, whatever was launched or polled,
\* and latest_branch_id is printed too; when it is empty, a printed
\* start_branch_id is an identifier a response named, never the parent.  The
\* tracker's latest changes only when a launch or a status fetch has returned,
\* to an identifier its response names.
C40_PrintedStartIsNonEmptyParent ==
    /\ [](/\ (process.ppc \in {"ready", "exited"} /\ ~Unset(process.parent_branch_id))
               => tracker.start = process.parent_branch_id
          /\ (process.ppc = "exited" /\ process.status = 0) =>
               IF ~Unset(process.parent_branch_id)
               THEN /\ HasKey(Printed, "start_branch_id")
                    /\ Printed.v["start_branch_id"] = process.parent_branch_id
                    /\ HasKey(Printed, "latest_branch_id")
                    /\ Printed.v["latest_branch_id"] = tracker.latest
               ELSE HasKey(Printed, "start_branch_id") =>
                        /\ Printed.v["start_branch_id"] # process.parent_branch_id
                        /\ Printed.v["start_branch_id"] = tracker.start
                        /\ ~Unset(tracker.start))
    /\ [][(process.ppc = "ready" /\ tracker'.latest # tracker.latest) =>
             /\ hpc \in {"launch", "poll"}
             /\ cpc = "returned"
             /\ tracker'.latest \in IdsIn(c_value)
             /\ tracker'.start = IF Unset(tracker.start) THEN tracker'.latest
                                 ELSE tracker.start]_vars

C40_Witness ==
    /\ process.ppc = "exited"
    /\ process.status = 0
    /\ process.parent_branch_id = JStr("b0")
    /\ Len(handled) = 2
    /\ handled[1].call.function.name = JStr("check_status")
    /\ Printed.v["start_branch_id"] = JStr("b0")
    /\ Printed.v["latest_branch_id"] = JStr("b2")

====
